---- MODULE Spec2Model ----
(***************************************************************************)
(* Client-side identity resolution and propagation of the K_media web /    *)
(* Telegram mini-app: window.getUserId, the patched window.fetch and       *)
(* XMLHttpRequest (user-id-patch.js), the ApiClient facade (api.js), the   *)
(* chat manager (chat.js) and the modal manager (modals.js).               *)
(***************************************************************************)
EXTENDS Integers, Sequences, FiniteSets, TLC

\* ------------------------------------------------------------------ bounds
MaxTgId == 2      \* Telegram user ids are 1..MaxTgId (0 models a falsy id)
MaxClock == 2     \* Date.now() takes the values 0..MaxClock
MaxRnd == 2       \* Math.random() suffixes are 1..MaxRnd
MaxPasses == 2    \* how often one request object is passed to the transport
MaxInflight == 2  \* requests awaiting their response at one time
MaxLog == 4       \* entries of the chat session / of the message list
MaxReading == 2   \* image files being prepared or read at one time
MaxTimers == 2    \* timers pending at one time
MaxRetries == 3   \* the maxRetries argument of retryRequest is 1..MaxRetries

\* ------------------------------------------------------------------ values
\* Every string value that travels in a body or header is a record of one
\* shape: kind "tg" is 'tg_<a>', kind "web" is 'web_<a>_<b>', kind "num" is
\* the decimal string of a, kind "lit" is a caller-chosen non-empty string,
\* kind "empty" is '', kind "none" is null / undefined.
Val(k, x, y) == [kind |-> k, a |-> x, b |-> y]
NoValue == Val("none", 0, 0)
EmptyStr == Val("empty", 0, 0)
Lit(n) == Val("lit", n, 0)

\* A File object: the a-th file of FileTable as the user picked it (b = 0),
\* or the JPEG file compressImage made of it (b = 1)
File(n, c) == Val("file", n, c)

\* JavaScript truthiness of a string-or-null value
Truthy(v) == v.kind \notin {"none", "empty"}

NoUser == -1
TgUsers == {NoUser} \cup (0..MaxTgId)

\* The feedback form: the text of its message field, empty by default
FormDefault == ""
FormValues == {"", "text1", "text2"}

\* app = new KirovetsMediaApp() in a document whose readyState is rs and
\* whose DOMContentLoaded event has fired or not.  listening: the
\* bootstrap's listener is registered; booted: the bootstrap script has
\* run; started: the calls of initialize() so far; running: those
\* awaiting the health check; log: the start-up steps in the order they
\* ran; reported: the calls of showInitializationError; escaped: the
\* rejections that left initialize().
App(rs, fired) ==
    [readyState |-> rs, fired |-> fired, listening |-> FALSE,
     booted |-> FALSE, isInitialized |-> FALSE, started |-> 0,
     running |-> 0, log |-> <<>>, reported |-> 0, escaped |-> 0]

NoApp == App("complete", TRUE)

VARIABLES
    tgWebApp,     \* window.Telegram && window.Telegram.WebApp is defined
    initData,     \* window.Telegram.WebApp.initData is a non-empty string
    tgUser,       \* window.Telegram.WebApp.initDataUnsafe?.user?.id, or NoUser
    tg,           \* telegram.js: tg captured at script load (defined or not)
    isInTelegram, \* telegram.js: isInTelegram computed at script load
    storage,      \* localStorage['chat_user_id'], NoValue when absent
    storageFault, \* "none", or which localStorage access throws
    clock,        \* Date.now()
    idCall,       \* the outcome of the latest getUserId() call
    tgObserved,   \* some getUserId() call of this page session returned tg_
    hist,         \* bookkeeping over the browser profile (see HistInit)
    call          \* the call of the patched transport made by the latest
                  \* step of the page's scripts, NoCall when it made none

VARIABLES
    currentUserId,    \* chat.js: currentUserId (NoValue for null)
    chatHistory,      \* chat.js: chatHistory, the cached chat session
    chatMessages,     \* the entries of #chatMessages after the welcome entry
    isProcessing,     \* ChatManager.isProcessing
    sendBtnDisabled,  \* #chatSendBtn.disabled
    isHistoryLoaded,  \* ChatManager.isHistoryLoaded
    lastSend,         \* how sendMessage() ended, if it was the latest step
    display,          \* the modals whose style.display is 'block'
    activeModal,      \* ModalManager.activeModal ("null" for null)
    content,          \* what #newspaperContent and #calendarContent show
    submitBtnDisabled,\* .submit-btn of the feedback form is disabled
    inflight,         \* the requests awaiting their response, oldest first
    handled           \* the response handled by the latest step, if any

VARIABLES
    currentImage,     \* chat.js: currentImage, the file kept for the next
                      \* send (NoValue for null)
    previewShown,     \* #imagePreview style.display is 'block'
    previewContent,   \* what #imagePreview holds: "none", "processing", "image"
    reading,          \* the files whose preparation or preview read is pending
    picked,           \* the file of the latest handleImageSelect call
    alerted,          \* whether that call showed an error alert
    layout,           \* the keyboard / preview classes set on chat elements
    indicatorEl,      \* #typingIndicator: "absent", "hidden" (a style sheet
                      \* keeps it from being displayed) or "normal"
    typingShown,      \* #typingIndicator has the inline style display: flex
    typingMessage,    \* a .typing-message entry is in #chatMessages
    checkTimers       \* pending visibility checks of showTypingIndicator

VARIABLES
    innerHeight,            \* window.innerHeight
    initialViewportHeight,  \* telegram.js: initialViewportHeight
    isKeyboardOpen,         \* telegram.js: isKeyboardOpen
    timers,                 \* pending timers of telegram.js, oldest first
    burst,                  \* bookkeeping over the current resize burst
    kbRun,                  \* the latest run of detectKeyboardState, if it
                            \* was the latest step
    img,                    \* the source image given to compressImage
    out,                    \* the canvas compressImage drew, if it ran
    retry,                  \* the call of retryRequest in progress
    form,                   \* the values of the feedback form's fields
    app                     \* the application object and the page's bootstrap

imageVars == <<currentImage, previewShown, previewContent, reading, picked,
               alerted>>
typingVars == <<indicatorEl, typingShown, typingMessage, checkTimers>>
kbVars == <<innerHeight, initialViewportHeight, isKeyboardOpen, timers, burst,
            kbRun>>
pageVars == <<form, app>>
utilVars == <<img, out, retry, pageVars>>
auxVars == <<imageVars, layout, typingVars, kbVars, utilVars>>

chatVars == <<currentUserId, chatHistory, chatMessages, isProcessing,
              sendBtnDisabled, isHistoryLoaded>>
modalVars == <<display, activeModal, content, submitBtnDisabled>>
noteVars == <<lastSend, handled>>
uiVars == <<chatVars, modalVars, inflight, noteVars, auxVars>>

idVars == <<tgWebApp, initData, tgUser, tg, isInTelegram, storage,
            storageFault, clock, idCall, tgObserved, hist>>
vars == <<tgWebApp, initData, tgUser, tg, isInTelegram, storage,
          storageFault, clock, idCall, tgObserved, hist, call, uiVars>>

\* ------------------------------------------------------------ getUserId
\* window.getUserId, evaluated in a state with the given stored value.
\* Result: outcome "return"/"throw", the returned value, the stored value
\* afterwards, whether setItem completed, and which step produced the value.
\* Mutation: the stored identity is consulted before the Telegram user.
getUserId_StoredFirst(stor, rnd) ==
    IF storageFault = "read"
    THEN [outcome |-> "throw", value |-> NoValue, storage |-> stor,
          wrote |-> FALSE, step |-> "read"]
    ELSE IF Truthy(stor)
    THEN [outcome |-> "return", value |-> stor, storage |-> stor,
          wrote |-> FALSE, step |-> "stored"]
    ELSE IF tgWebApp /\ tgUser # NoUser /\ tgUser # 0
    THEN [outcome |-> "return", value |-> Val("tg", tgUser, 0),
          storage |-> stor, wrote |-> FALSE, step |-> "telegram"]
    ELSE IF storageFault = "write"
    THEN [outcome |-> "throw", value |-> NoValue, storage |-> stor,
          wrote |-> FALSE, step |-> "write"]
    ELSE [outcome |-> "return", value |-> Val("web", clock, rnd),
          storage |-> Val("web", clock, rnd),
          wrote |-> TRUE, step |-> "generated"]

\* Mutation: the stored identity is written back on every read.
getUserId_Rewrite(stor, rnd) ==
    IF tgWebApp /\ tgUser # NoUser /\ tgUser # 0
    THEN [outcome |-> "return", value |-> Val("tg", tgUser, 0),
          storage |-> stor, wrote |-> FALSE, step |-> "telegram"]
    ELSE IF storageFault # "none"
    THEN [outcome |-> "throw", value |-> NoValue, storage |-> stor,
          wrote |-> FALSE, step |-> "read"]
    ELSE IF Truthy(stor)
    THEN [outcome |-> "return", value |-> stor, storage |-> stor,
          wrote |-> TRUE, step |-> "stored"]
    ELSE [outcome |-> "return", value |-> Val("web", clock, rnd),
          storage |-> Val("web", clock, rnd),
          wrote |-> TRUE, step |-> "generated"]

\* Mutation: the durable key is never read, every call generates.
getUserId_NoRead(stor, rnd) ==
    IF tgWebApp /\ tgUser # NoUser /\ tgUser # 0
    THEN [outcome |-> "return", value |-> Val("tg", tgUser, 0),
          storage |-> stor, wrote |-> FALSE, step |-> "telegram"]
    ELSE IF storageFault # "none"
    THEN [outcome |-> "throw", value |-> NoValue, storage |-> stor,
          wrote |-> FALSE, step |-> "write"]
    ELSE [outcome |-> "return", value |-> Val("web", clock, rnd),
          storage |-> Val("web", clock, rnd),
          wrote |-> TRUE, step |-> "generated"]

getUserId(stor, rnd) ==
    IF tgWebApp /\ tgUser # NoUser /\ tgUser # 0
    THEN [outcome |-> "return", value |-> Val("tg", tgUser, 0),
          storage |-> stor, wrote |-> FALSE, step |-> "telegram"]
    ELSE IF storageFault = "read"
    THEN [outcome |-> "throw", value |-> NoValue, storage |-> stor,
          wrote |-> FALSE, step |-> "read"]
    ELSE IF Truthy(stor)
    THEN [outcome |-> "return", value |-> stor, storage |-> stor,
          wrote |-> FALSE, step |-> "stored"]
    ELSE IF storageFault = "write"
    THEN [outcome |-> "throw", value |-> NoValue, storage |-> stor,
          wrote |-> FALSE, step |-> "write"]
    ELSE [outcome |-> "return", value |-> Val("web", clock, rnd),
          storage |-> Val("web", clock, rnd),
          wrote |-> TRUE, step |-> "generated"]

\* The record kept of a getUserId() call r made with stored value stor.
IdCallOf(r, stor, seen) ==
    [outcome |-> r.outcome, value |-> r.value, wrote |-> r.wrote,
     step |-> r.step, before |-> stor, tgBefore |-> seen,
     hostTg |-> (tgWebApp /\ tgUser # NoUser /\ tgUser # 0)]

NoIdCall ==
    [outcome |-> "none", value |-> NoValue, wrote |-> FALSE, step |-> "none",
     before |-> NoValue, tgBefore |-> FALSE, hostTg |-> FALSE]

\* Bookkeeping over the browser profile: whether the key was absent at the
\* start, whether it was removed since, how many setItem calls completed,
\* and the web identities returned since the key was last removed.
HistInit(stor) ==
    [absentAtStart |-> ~Truthy(stor), removed |-> FALSE, writes |-> 0,
     webReturned |-> {}]

HistAfter(h, r) ==
    [h EXCEPT !.writes = IF r.wrote /\ @ < 2 THEN @ + 1 ELSE @,
              !.webReturned = IF r.outcome = "return" /\ r.value.kind = "web"
                              THEN @ \cup {r.value} ELSE @]

\* The state of the resolver after one getUserId() call with result r.
IdStep(r) ==
    /\ storage' = r.storage
    /\ idCall' = IdCallOf(r, storage, tgObserved)
    /\ tgObserved' = (tgObserved \/ (r.outcome = "return" /\ r.value.kind = "tg"))
    /\ hist' = HistAfter(hist, r)

\* user-id-patch.js lines 83 and 87: a direct call of getUserId()
CallGetUserId ==
    /\ \E rnd \in 1..MaxRnd : IdStep(getUserId(storage, rnd))
    /\ UNCHANGED <<tgWebApp, initData, tgUser, tg, isInTelegram, storageFault,
                   clock, call, uiVars>>

\* ------------------------------------------------------- request bodies
\* A body is absent, a FormData (its entries in order, duplicates allowed) or
\* a string.  A string body is described by what JSON.parse makes of it:
\* json "obj" with the members as written (duplicate keys allowed), "arr",
\* "null", or "bad" for text that does not parse; compact tells whether the
\* text is spelled the way JSON.stringify spells it.
Body(k, j, es, c) == [kind |-> k, json |-> j, entries |-> es, compact |-> c]
NoBody == Body("none", "n/a", <<>>, FALSE)
FormBody(es) == Body("form", "n/a", es, FALSE)
TextBody(j, es, c) == Body("text", j, es, c)

\* FormData.has / the number of entries of a name / own-property test
Has(es, name) == \E i \in DOMAIN es : es[i][1] = name
Count(es, name) == Cardinality({i \in DOMAIN es : es[i][1] = name})

\* The object JSON.parse builds from the members of an object text: a later
\* duplicate key replaces the value and keeps the position of the first.
RECURSIVE ObjectOf(_)
ObjectOf(es) ==
    IF es = <<>> THEN <<>>
    ELSE LET init == ObjectOf(SubSeq(es, 1, Len(es) - 1))
             last == es[Len(es)]
         IN IF Has(init, last[1])
            THEN [i \in DOMAIN init |->
                     IF init[i][1] = last[1] THEN last ELSE init[i]]
            ELSE Append(init, last)

\* data.name : undefined (NoValue) when the property is missing
Get(obj, name) ==
    IF Has(obj, name)
    THEN obj[CHOOSE i \in DOMAIN obj : obj[i][1] = name][2]
    ELSE NoValue

\* data.name = v
SetProp(obj, name, v) == ObjectOf(Append(obj, <<name, v>>))

\* JSON.parse(options.body): fails on an absent body and on malformed text
JSONparse(body) ==
    [ok |-> (body.kind = "text" /\ body.json # "bad"),
     type |-> body.json,
     props |-> IF body.json = "obj" THEN ObjectOf(body.entries) ELSE <<>>,
     items |-> IF body.json = "arr" THEN body.entries ELSE <<>>]

\* JSON.stringify(data): an array is serialized from its elements only
JSONstringify(data) ==
    IF data.type = "arr" THEN TextBody("arr", data.items, TRUE)
    ELSE TextBody("obj", data.props, TRUE)

\* ------------------------------------------------------------------- URLs
\* A URL is a sequence of text pieces; String.includes('/api/chat') is true
\* when the piece occurs anywhere in it.
ChatPiece == "/api/chat"
url_includes_chat(url) == \E i \in DOMAIN url : url[i] = ChatPiece

\* the target path belongs to the chat endpoint family
IsChatEndpoint(url) ==
    /\ Len(url) >= 1 /\ url[1] = ChatPiece
    /\ Len(url) >= 2 => url[2] \in {"/history", "/clear", "/settings", "/status"}

\* getUserId() calls made one after the other, each seeing the stored value
\* the previous one left; the list stops at the first call that throws.
TwoCalls(rnd) ==
    LET r1 == getUserId(storage, rnd)
    IN IF r1.outcome = "throw" THEN <<r1>>
       ELSE <<r1, getUserId(r1.storage, rnd)>>

Threw(ids) == ids # <<>> /\ ids[Len(ids)].outcome = "throw"

\* Result of one pass through a patched transport function: whether an
\* exception left it, whether the original function was invoked, the body as
\* forwarded (or as left behind), the getUserId() calls made, and whether an
\* exception was caught inside.
Pass(t, f, b, ids, c) ==
    [threw |-> t, forwarded |-> f, body |-> b, ids |-> ids, caught |-> c]

\* window.fetch (patched), FormData branch
fetch_form(body, rnd) ==
    IF ~Has(body.entries, "user_id")
    THEN LET ids == TwoCalls(rnd)
             appended ==
                 FormBody(Append(body.entries, <<"user_id", ids[1].value>>))
         IN IF ids[1].outcome = "throw"
            THEN Pass(TRUE, FALSE, body, ids, FALSE)
            ELSE IF Threw(ids)
            THEN Pass(TRUE, FALSE, appended, ids, FALSE)
            ELSE Pass(FALSE, TRUE, appended, ids, FALSE)
    ELSE Pass(FALSE, TRUE, body, <<>>, FALSE)

\* Mutation: a parse failure is not caught.
fetch_json_NoCatch(body, rnd) ==
    LET data == JSONparse(body)
    IN IF ~data.ok THEN Pass(TRUE, FALSE, body, <<>>, FALSE)
       ELSE Pass(FALSE, TRUE, body, <<>>, FALSE)

\* Mutation: user_id is set without looking at the field.
fetch_json_Overwrite(body, rnd) ==
    LET data == JSONparse(body)
        ids == TwoCalls(rnd)
    IN IF ~data.ok \/ data.type # "obj" THEN Pass(FALSE, TRUE, body, <<>>, TRUE)
       ELSE IF ids[1].outcome = "throw"
       THEN Pass(FALSE, TRUE, body, ids, TRUE)
       ELSE Pass(FALSE, TRUE,
                 JSONstringify([data EXCEPT !.props =
                                   SetProp(@, "user_id", ids[1].value)]),
                 ids, FALSE)

\* Mutation: the identity is appended to the text instead of being set on
\* the parsed object.
fetch_json_AppendMember(body, rnd) ==
    LET data == JSONparse(body)
        ids == TwoCalls(rnd)
    IN IF ~data.ok \/ data.type # "obj" THEN Pass(FALSE, TRUE, body, <<>>, TRUE)
       ELSE IF ids[1].outcome = "throw"
       THEN Pass(FALSE, TRUE, body, ids, TRUE)
       ELSE Pass(FALSE, TRUE,
                 TextBody("obj",
                          Append(Append(body.entries,
                                        <<"user_id", ids[1].value>>),
                                 <<"user_id", ids[1].value>>), TRUE),
                 ids, FALSE)

\* window.fetch (patched), JSON branch with its try/catch
fetch_json(body, rnd) ==
    LET data == JSONparse(body)
    IN IF ~data.ok
       THEN Pass(FALSE, TRUE, body, <<>>, TRUE)      \* SyntaxError, caught
       ELSE IF data.type = "null"
       THEN Pass(FALSE, TRUE, body, <<>>, TRUE)      \* TypeError, caught
       ELSE IF ~Truthy(Get(data.props, "user_id"))
       THEN LET ids == TwoCalls(rnd)
                set == JSONstringify([data EXCEPT !.props =
                                    SetProp(@, "user_id", ids[1].value)])
            IN IF ids[1].outcome = "throw"
               THEN Pass(FALSE, TRUE, body, ids, TRUE)
               ELSE Pass(FALSE, TRUE, set, ids, Threw(ids))
       ELSE Pass(FALSE, TRUE, body, <<>>, FALSE)

\* window.fetch (patched): url, options.method, options.headers
\* ['Content-Type'] ("json" for 'application/json'), options.body
fetch(url, method, ct, body, rnd) ==
    IF url_includes_chat(url) /\ method = "POST"
    THEN IF body.kind = "form" THEN fetch_form(body, rnd)
         ELSE IF ct = "json" THEN fetch_json(body, rnd)
         ELSE Pass(FALSE, TRUE, body, <<>>, FALSE)
    ELSE Pass(FALSE, TRUE, body, <<>>, FALSE)

\* XMLHttpRequest.prototype.send (patched); url is this._url
XHRSend(url, body, rnd) ==
    IF url_includes_chat(url)
    THEN IF body.kind = "form" /\ ~Has(body.entries, "user_id")
         THEN LET ids == TwoCalls(rnd)
                  appended ==
                    FormBody(Append(body.entries, <<"user_id", ids[1].value>>))
              IN IF ids[1].outcome = "throw"
                 THEN Pass(TRUE, FALSE, body, ids, FALSE)
                 ELSE IF Threw(ids)
                 THEN Pass(TRUE, FALSE, appended, ids, FALSE)
                 ELSE Pass(FALSE, TRUE, appended, ids, FALSE)
         ELSE Pass(FALSE, TRUE, body, <<>>, FALSE)
    ELSE Pass(FALSE, TRUE, body, <<>>, FALSE)

\* ------------------------------------------------- transport bookkeeping
\* The record of the latest call of a patched transport function: the
\* request as the caller built it (orig: before the first pass, given: as
\* handed to this pass) and as it was forwarded to the original function.
CallRec(api, op, url, method, ct, xtg, query, orig, given, p, n, host) ==
    [api |-> api, op |-> op, url |-> url, method |-> method, ct |-> ct,
     xtg |-> xtg, query |-> query, orig |-> orig, given |-> given,
     body |-> p.body, threw |-> p.threw, forwarded |-> p.forwarded,
     caught |-> p.caught, nIds |-> Len(p.ids),
     idValue |-> IF p.ids # <<>> /\ p.ids[1].outcome = "return"
                 THEN p.ids[1].value ELSE NoValue,
     idThrew |-> Threw(p.ids), hostUser |-> host,
     hostAuth |-> (tgWebApp /\ initData), passes |-> n]

NoCall ==
    CallRec("none", "none", <<>>, "none", "none", NoValue, <<>>, NoBody,
            NoBody, Pass(FALSE, FALSE, NoBody, <<>>, FALSE), 0, NoUser)

\* The durable key after the getUserId() calls of one pass.  idCall,
\* tgObserved and hist keep the books of the direct calls (CallGetUserId);
\* the calls made inside the transport are recorded in call.
IdSteps(ids) ==
    /\ storage' = IF ids = <<>> THEN storage ELSE ids[Len(ids)].storage
    /\ UNCHANGED <<idCall, tgObserved, hist>>

\* Math.random() is consulted only when an identity is generated.
Rnds ==
    IF (tgWebApp /\ tgUser # NoUser /\ tgUser # 0) \/ Truthy(storage)
    THEN {1} ELSE 1..MaxRnd

\* ------------------------------------------------------- callers of fetch
\* options.method / the method given to open: POST and one that is not
Methods == {"POST", "PUT"}
ContentTypes == {"json", "none"}
RawUrls ==
    { <<ChatPiece>>, <<"/api/feedback">>,
      <<"/api/feedback", "?from=", ChatPiece>> }

FormBodies ==
    { FormBody(<<>>),
      FormBody(<<<<"message", Lit(1)>>>>),
      FormBody(<<<<"user_id", Lit(2)>>>>),
      FormBody(<<<<"user_id", EmptyStr>>>>) }

TextBodies ==
    { TextBody("obj", <<>>, TRUE),
      TextBody("obj", <<<<"message", Lit(1)>>>>, FALSE),
      TextBody("obj", <<<<"user_id", Lit(2)>>>>, TRUE),
      TextBody("obj", <<<<"user_id", EmptyStr>>>>, TRUE),
      TextBody("arr", <<<<"0", Lit(1)>>>>, FALSE),
      TextBody("null", <<>>, TRUE),
      TextBody("bad", <<>>, FALSE) }

\* options.headers['Content-Type'] and options.body as callers combine them:
\* a FormData travels without a Content-Type of the caller's.
RawOptions ==
    {o \in [ct : ContentTypes, body : FormBodies \cup TextBodies \cup {NoBody}] :
        o.body.kind = "form" => o.ct = "none"}

\* Any script of the page calls window.fetch(url, options).
RawFetch ==
    \E url \in RawUrls, method \in Methods, o \in RawOptions, rnd \in Rnds :
        LET p == fetch(url, method, o.ct, o.body, rnd)
        IN /\ call' = CallRec("fetch", "raw", url, method, o.ct, NoValue, <<>>,
                              o.body, o.body, p, 1, NoUser)
           /\ IdSteps(p.ids)
           /\ UNCHANGED <<tgWebApp, initData, tgUser, tg, isInTelegram,
                          storageFault, clock, uiVars>>

\* The caller hands the same url and options object to window.fetch again
\* (a retry): the options carry whatever the previous pass left in them.
Refetch ==
    /\ call.api = "fetch" /\ call.op = "raw"
    /\ call.passes < MaxPasses
    /\ \E rnd \in Rnds :
        LET p == fetch(call.url, call.method, call.ct, call.body, rnd)
        IN /\ call' = CallRec("fetch", "raw", call.url, call.method, call.ct,
                              NoValue, <<>>, call.orig, call.body, p,
                              call.passes + 1, NoUser)
           /\ IdSteps(p.ids)
    /\ UNCHANGED <<tgWebApp, initData, tgUser, tg, isInTelegram,
                   storageFault, clock, uiVars>>

\* XMLHttpRequest.prototype.open (patched): this._url = url
XhrOpen ==
    /\ \E method \in Methods, url \in RawUrls :
        call' = CallRec("xhr", "open", url, method, "none", NoValue, <<>>,
                        NoBody, NoBody,
                        Pass(FALSE, FALSE, NoBody, <<>>, FALSE), 0, NoUser)
    /\ UNCHANGED <<idVars, uiVars>>

\* XMLHttpRequest.prototype.send (patched) on the opened request; sending
\* the same FormData object again goes through the injector again.
XhrSend ==
    /\ call.api = "xhr"
    /\ call.passes < MaxPasses
    /\ \E body \in (IF call.op = "open"
                    THEN FormBodies \cup {TextBody("obj", <<>>, TRUE)}
                    ELSE {call.body}),
          rnd \in Rnds :
        LET p == XHRSend(call.url, body, rnd)
        IN /\ call' = CallRec("xhr", "send", call.url, call.method, "none",
                              NoValue, <<>>,
                              IF call.op = "open" THEN body ELSE call.orig,
                              body, p, call.passes + 1, NoUser)
           /\ IdSteps(p.ids)
    /\ UNCHANGED <<tgWebApp, initData, tgUser, tg, isInTelegram,
                   storageFault, clock, uiVars>>

\* ------------------------------------------------------ ApiClient facade
\* telegram.js getTelegramUser(): the id of the host user, NoUser for null
getTelegramUser ==
    IF isInTelegram /\ tgUser # NoUser THEN tgUser ELSE NoUser

\* Mutation: the id is taken from the host object without asking whether
\* the app runs inside Telegram.
getTelegramUserId_NoHostCheck ==
    IF tgWebApp /\ tgUser # NoUser /\ tgUser # 0
    THEN Val("num", tgUser, 0)
    ELSE NoValue

\* ApiClient.getTelegramUserId(): user.id.toString(), or null
getTelegramUserId ==
    IF isInTelegram /\ getTelegramUser # NoUser /\ getTelegramUser # 0
    THEN Val("num", getTelegramUser, 0)
    ELSE NoValue

\* ApiClient.getUserHeaders(): the value of X-Telegram-User-Id, if set
getUserHeaders == getTelegramUserId

\* ApiClient.makeRequest(endpoint, options) up to the call of fetch
makeRequest(op, endpoint, query, method, body, rnd) ==
    LET ct == IF body.kind = "text" THEN "json" ELSE "none"
        p == fetch(endpoint, method, ct, body, rnd)
    IN /\ call' = CallRec("fetch", op, endpoint, method, ct, getUserHeaders,
                          query, body, body, p, 1,
                          IF tgWebApp THEN tgUser ELSE NoUser)
       /\ IdSteps(p.ids)
       /\ UNCHANGED <<tgWebApp, initData, tgUser, tg, isInTelegram,
                      storageFault, clock>>

\* ApiClient.get(endpoint, params)
get(op, endpoint, params, rnd) ==
    LET q == IF Truthy(getTelegramUserId)
             THEN SetProp(params, "telegram_user_id", getTelegramUserId)
             ELSE params
    IN makeRequest(op, endpoint, q, "GET", NoBody, rnd)

\* ApiClient.post(endpoint, data)
post(op, endpoint, data, rnd) ==
    LET d == IF Truthy(getTelegramUserId)
             THEN SetProp(data, "telegram_user_id", getTelegramUserId)
             ELSE data
    IN makeRequest(op, endpoint, <<>>, "POST",
                   JSONstringify([ok |-> TRUE, type |-> "obj", props |-> d,
                                  items |-> <<>>]), rnd)

\* ApiClient.postFormData(endpoint, formData)
postFormData(op, endpoint, entries, rnd) ==
    LET es == IF Truthy(getTelegramUserId)
              THEN Append(entries, <<"telegram_user_id", getTelegramUserId>>)
              ELSE entries
    IN makeRequest(op, endpoint, <<>>, "POST", FormBody(es), rnd)

\* ChatAPI.sendMessage(message, imageFile)
ChatAPI_sendMessage(message, image, rnd) ==
    postFormData("sendMessage", <<ChatPiece>>,
        (IF Truthy(message) THEN <<<<"message", message>>>> ELSE <<>>)
          \o (IF Truthy(image) THEN <<<<"image", image>>>> ELSE <<>>),
        rnd)

\* ChatAPI.getHistory(limit = 10)
ChatAPI_getHistory(rnd) ==
    get("getHistory", <<ChatPiece, "/history">>,
        <<<<"limit", Val("num", 10, 0)>>>>, rnd)

\* ChatAPI.clearHistory()
ChatAPI_clearHistory(rnd) ==
    post("clearHistory", <<ChatPiece, "/clear">>, <<>>, rnd)

\* FeedbackAPI.submitFeedback(feedbackData)
FeedbackAPI_submitFeedback(rnd) ==
    post("submitFeedback", <<"/api/feedback">>, <<<<"message", Lit(1)>>>>, rnd)

\* NewspaperAPI.getArticles()
NewspaperAPI_getArticles(rnd) ==
    get("getArticles", <<"/api/newspaper">>, <<>>, rnd)

\* EventsAPI.getEvents()
EventsAPI_getEvents(rnd) ==
    get("getEvents", <<"/api/events">>, <<>>, rnd)

\* Any script of the page calls an operation of window.API.
ChatSendMessage ==
    /\ \E message \in {EmptyStr, Lit(1)}, image \in {NoValue, File(1, 0)},
          rnd \in Rnds :
        ChatAPI_sendMessage(message, image, rnd)
    /\ UNCHANGED uiVars

ChatGetHistory ==
    /\ \E rnd \in Rnds : ChatAPI_getHistory(rnd)
    /\ UNCHANGED uiVars

ChatClearHistory ==
    /\ \E rnd \in Rnds : ChatAPI_clearHistory(rnd)
    /\ UNCHANGED uiVars

\* ChatAPI.getSettings()
ChatGetSettings ==
    /\ \E rnd \in Rnds :
        get("getSettings", <<ChatPiece, "/settings">>, <<>>, rnd)
    /\ UNCHANGED uiVars

\* ChatAPI.updateSettings(settings)
ChatUpdateSettings ==
    /\ \E rnd \in Rnds :
        post("updateSettings", <<ChatPiece, "/settings">>,
             <<<<"mode", Lit(1)>>>>, rnd)
    /\ UNCHANGED uiVars

\* ChatAPI.getStatus()
ChatGetStatus ==
    /\ \E rnd \in Rnds :
        get("getStatus", <<ChatPiece, "/status">>, <<>>, rnd)
    /\ UNCHANGED uiVars

\* NewspaperAPI.getArticles, EventsAPI.getEvents, TestAPI.test, TestAPI.health
OtherGet ==
    /\ \E rnd \in Rnds :
        \/ NewspaperAPI_getArticles(rnd)
        \/ EventsAPI_getEvents(rnd)
        \/ get("test", <<"/api/test">>, <<>>, rnd)
        \/ get("health", <<"/health">>, <<>>, rnd)
    /\ UNCHANGED uiVars

FeedbackSubmit ==
    /\ \E rnd \in Rnds : FeedbackAPI_submitFeedback(rnd)
    /\ UNCHANGED uiVars

\* ----------------------------------------------------------- chat manager
\* An entry of chatHistory.  prev and old are bookkeeping: the entry belongs
\* to an identity the chat manager has left since / to a message sent before
\* a clear that the server has confirmed since.
Entry(role, c, p, o) == [role |-> role, content |-> c, prev |-> p, old |-> o]

\* An entry of the message list (addMessageToChat)
Shown(role, c) == [role |-> role, content |-> c]
ErrorText == Val("error", 0, 0)

\* role and content of the entries of a chat session
Plain(h) == [i \in DOMAIN h |-> Shown(h[i].role, h[i].content)]

\* data.history as the server sends it: {role: 'user' | 'model', parts}
ServerMsg(role, text) == [role |-> role, text |-> text]
Histories ==
    { <<>>, <<ServerMsg("user", Lit(1)), ServerMsg("model", Lit(2))>> }

\* loadChatHistory lines 177-180: data.history.map(...)
HistoryOf(h, p) ==
    [i \in DOMAIN h |->
        Entry(IF h[i].role = "model" THEN "bot" ELSE h[i].role,
              h[i].text, p, FALSE)]

\* loadChatHistory lines 154-174: the entries rendered from data.history
RenderedOf(h) ==
    [i \in DOMAIN h |->
        Shown(IF h[i].role = "model" THEN "bot" ELSE h[i].role, h[i].text)]

\* ChatManager.updateUserId(): the identity and the history flag afterwards,
\* and whether an identity different from the current one was observed
updateUserId ==
    IF isInTelegram
    THEN IF getTelegramUser \notin {NoUser, 0}
              /\ currentUserId # Val("tg", getTelegramUser, 0)
         THEN [currentUserId |-> Val("tg", getTelegramUser, 0),
               isHistoryLoaded |-> FALSE, changed |-> TRUE]
         ELSE [currentUserId |-> currentUserId,
               isHistoryLoaded |-> isHistoryLoaded, changed |-> FALSE]
    ELSE IF ~Truthy(currentUserId)
         THEN [currentUserId |-> Val("session", clock, 0),
               isHistoryLoaded |-> isHistoryLoaded, changed |-> FALSE]
         ELSE [currentUserId |-> currentUserId,
               isHistoryLoaded |-> isHistoryLoaded, changed |-> FALSE]

\* the identity a server derives from the request c, for the user_id
\* member of its answer
Echo(c) ==
    IF Truthy(c.xtg) THEN Val("tg", c.xtg.a, 0)
    ELSE Get(c.body.entries, "user_id")

\* A request awaiting its response: what the handler that awaits it keeps
\* (kind, message), what the transport record c tells about it (failed: the
\* transport threw and the promise is rejected; echo: see Echo), and
\* bookkeeping: prev / old as for entries, concurrent tells that another
\* history load was in flight at the same time.
Request(kind, message, c, conc) ==
    [kind |-> kind, message |-> message, failed |-> c.threw, echo |-> Echo(c),
     prev |-> FALSE, old |-> FALSE, concurrent |-> conc]

\* The response handled by a step: which handler resumed, with which
\* outcome, the history / response text the response carried, and the
\* request's bookkeeping.
Handled(r, d) ==
    [kind |-> r.kind, outcome |-> d.outcome, carried |-> d.history,
     message |-> r.message, response |-> d.response, user_id |-> d.user_id,
     prev |-> r.prev, old |-> r.old, concurrent |-> r.concurrent]

NoResponse ==
    [kind |-> "none", outcome |-> "none", carried |-> <<>>,
     message |-> NoValue, response |-> NoValue, user_id |-> NoValue,
     prev |-> FALSE, old |-> FALSE, concurrent |-> FALSE]

\* Bookkeeping at an identity change (p) / at a confirmed clear (o)
Tag(q, p, o) ==
    [i \in DOMAIN q |-> [q[i] EXCEPT !.prev = @ \/ p, !.old = @ \/ o]]

TagOne(x, p, o) == [x EXCEPT !.prev = @ \/ p, !.old = @ \/ o]

\* lastSend and handled describe the latest step only
Sent(how) == lastSend' = how /\ handled' = NoResponse
Resumed(r, d) == lastSend' = "none" /\ handled' = Handled(r, d)
Quiet == lastSend' = "none" /\ handled' = NoResponse

\* a step of the chat or modal manager that calls no transport
NoRequest == call' = NoCall /\ UNCHANGED idVars

Without(q, i) == [j \in 1..(Len(q) - 1) |-> IF j < i THEN q[j] ELSE q[j + 1]]

Pending(kind) == {i \in DOMAIN inflight : inflight[i].kind = kind}

\* What the server may answer: a payload {success: true, ...}, a payload
\* {success: false, error}, or a rejection (network failure, HTTP status
\* outside 2xx); a request the transport never sent can only reject.
Answer(outcome, history, response, user_id) ==
    [outcome |-> outcome, history |-> history, response |-> response,
     user_id |-> user_id]

Answers(r) ==
    IF r.failed THEN {Answer("reject", <<>>, NoValue, NoValue)}
    ELSE { Answer("reject", <<>>, NoValue, NoValue),
           Answer("fail", <<>>, NoValue, NoValue) }
         \cup
         (CASE r.kind = "send" ->
                  { Answer("ok", <<>>, t, u) :
                      t \in {Lit(2), NoValue}, u \in {NoValue, r.echo} }
                  \cup { Answer("fail", <<>>, NoValue, r.echo) }
            [] r.kind = "history" ->
                  { Answer("ok", h, NoValue, u) :
                      h \in Histories, u \in {NoValue, r.echo} }
            [] r.kind \in {"articles", "events"} ->
                  { Answer("ok", h, NoValue, NoValue) : h \in Histories }
            [] OTHER -> { Answer("ok", <<>>, NoValue, NoValue) })

\* ChatManager.initialize(), which the application calls at start-up and at
\* every restart
initialize ==
    LET u == updateUserId
    IN /\ currentUserId' = u.currentUserId
       /\ isHistoryLoaded' = u.isHistoryLoaded
       /\ chatHistory' = Tag(chatHistory, u.changed, FALSE)
       /\ inflight' = Tag(inflight, u.changed, FALSE)
       /\ Quiet
       /\ NoRequest
       /\ UNCHANGED <<chatMessages, isProcessing, sendBtnDisabled, modalVars,
                      auxVars>>

\* ChatManager.loadChatHistory() up to its await
loadChatHistory ==
    LET u == updateUserId
        conc == Pending("history") # {}
    IN /\ \E rnd \in Rnds : ChatAPI_getHistory(rnd)
       /\ currentUserId' = u.currentUserId
       /\ isHistoryLoaded' = u.isHistoryLoaded
       /\ chatHistory' = Tag(chatHistory, u.changed, FALSE)
       /\ Quiet
       /\ inflight' =
            Append([i \in DOMAIN inflight |->
                      [TagOne(inflight[i], u.changed, FALSE)
                         EXCEPT !.concurrent =
                                   @ \/ inflight[i].kind = "history"]],
                   Request("history", NoValue, call', conc))
       /\ UNCHANGED <<chatMessages, isProcessing, sendBtnDisabled, auxVars>>

\* ChatManager.loadChatHistory() from the response on
loadChatHistory_resume(r, d) ==
    IF d.outcome = "ok"
    THEN [currentUserId |-> IF Truthy(d.user_id) THEN d.user_id
                            ELSE currentUserId,
          chatHistory |-> IF d.history # <<>> THEN HistoryOf(d.history, r.prev)
                          ELSE chatHistory,
          chatMessages |-> IF d.history # <<>> THEN RenderedOf(d.history)
                           ELSE chatMessages,
          typingMessage |-> typingMessage /\ d.history = <<>>,
          isHistoryLoaded |-> TRUE]
    ELSE [currentUserId |-> currentUserId, chatHistory |-> chatHistory,
          chatMessages |-> chatMessages, typingMessage |-> typingMessage,
          isHistoryLoaded |-> isHistoryLoaded]

ResolveHistory ==
    /\ \E i \in Pending("history") : \E d \in Answers(inflight[i]) :
        LET n == loadChatHistory_resume(inflight[i], d)
        IN /\ currentUserId' = n.currentUserId
           /\ chatHistory' = n.chatHistory
           /\ chatMessages' = n.chatMessages
           /\ isHistoryLoaded' = n.isHistoryLoaded
           /\ typingMessage' = n.typingMessage
           /\ Resumed(inflight[i], d)
           /\ inflight' = Without(inflight, i)
    /\ NoRequest
    /\ UNCHANGED <<isProcessing, sendBtnDisabled, modalVars, imageVars, layout,
                   indicatorEl, typingShown, checkTimers, kbVars, utilVars>>

\* ChatManager.openChat()
openChat ==
    /\ display' = display \cup {"chatModal"}
    /\ UNCHANGED <<activeModal, content, submitBtnDisabled>>
    /\ IF ~isHistoryLoaded
       THEN Len(inflight) < MaxInflight /\ loadChatHistory
       ELSE Quiet /\ NoRequest /\ UNCHANGED <<chatVars, inflight, auxVars>>

\* ChatManager.clearChatHistory() with the user's answer to the confirm
\* dialog, and ChatManager.performClearHistory() up to its await
clearChatHistory ==
    /\ \E confirmed \in BOOLEAN :
        IF confirmed
        THEN /\ Len(inflight) < MaxInflight
             /\ \E rnd \in Rnds : ChatAPI_clearHistory(rnd)
             /\ inflight' = Append(inflight,
                    Request("clear", NoValue, call', FALSE))
        ELSE NoRequest /\ UNCHANGED <<inflight>>
    /\ Quiet
    /\ UNCHANGED <<chatVars, modalVars, auxVars>>

\* ChatManager.performClearHistory() from the response on
performClearHistory_resume(r, d) ==
    IF d.outcome = "ok"
    THEN [chatHistory |-> <<>>, chatMessages |-> <<>>,
          typingMessage |-> FALSE, isHistoryLoaded |-> TRUE]
    ELSE [chatHistory |-> chatHistory, chatMessages |-> chatMessages,
          typingMessage |-> typingMessage,
          isHistoryLoaded |-> isHistoryLoaded]

ResolveClear ==
    /\ \E i \in Pending("clear") : \E d \in Answers(inflight[i]) :
        LET n == performClearHistory_resume(inflight[i], d)
        IN /\ chatHistory' = n.chatHistory
           /\ chatMessages' = n.chatMessages
           /\ isHistoryLoaded' = n.isHistoryLoaded
           /\ typingMessage' = n.typingMessage
           /\ Resumed(inflight[i], d)
           /\ inflight' = Tag(Without(inflight, i), FALSE, d.outcome = "ok")
    /\ NoRequest
    /\ UNCHANGED <<currentUserId, isProcessing, sendBtnDisabled, modalVars,
                   imageVars, layout, indicatorEl, typingShown, checkTimers,
                   kbVars, utilVars>>

\* The classes setPreviewMode(enabled) adds to or removes from
\* #chatInputContainer and #chatMessages
PreviewClasses == {"input:has-preview", "messages:has-preview"}

setPreviewMode(l, enabled) ==
    IF enabled THEN l \cup PreviewClasses ELSE l \ PreviewClasses

\* ChatManager.showTypingIndicator(): the previous indicator is hidden, then
\* the dedicated element is styled visible and a visibility check is
\* scheduled, or, without the element, the inline entry is added
showTypingIndicator ==
    IF indicatorEl = "absent"
    THEN [typingShown |-> FALSE, typingMessage |-> TRUE,
          checkTimers |-> checkTimers]
    ELSE [typingShown |-> TRUE, typingMessage |-> FALSE,
          checkTimers |-> checkTimers + 1]

\* ChatManager.hideTypingIndicator()
hideTypingIndicator ==
    [typingShown |-> FALSE, typingMessage |-> FALSE]

\* ChatManager.sendMessage() from updateUserId() to its await: the user
\* entry is rendered, the attached image is taken and removed
\* (removeImage), the typing indicator is shown and the request is issued
sendMessage_try(message, image) ==
    LET u == updateUserId
        t == showTypingIndicator
    IN /\ Len(inflight) < MaxInflight
       /\ Len(chatMessages) + 2 <= MaxLog
       /\ Len(chatHistory) + 2 <= MaxLog
       /\ t.checkTimers <= MaxTimers
       /\ \E rnd \in Rnds : ChatAPI_sendMessage(message, image, rnd)
       /\ currentUserId' = u.currentUserId
       /\ isHistoryLoaded' = u.isHistoryLoaded
       /\ isProcessing' = TRUE
       /\ sendBtnDisabled' = TRUE
       /\ chatMessages' = Append(chatMessages, Shown("user", message))
       /\ chatHistory' = Tag(chatHistory, u.changed, FALSE)
       /\ inflight' =
            Append(Tag(inflight, u.changed, FALSE),
                   Request("send", message, call', FALSE))
       /\ currentImage' = NoValue
       /\ previewShown' = FALSE
       /\ layout' = setPreviewMode(layout, FALSE)
       /\ typingShown' = t.typingShown
       /\ typingMessage' = t.typingMessage
       /\ checkTimers' = t.checkTimers
       /\ Sent("issued")
       /\ UNCHANGED <<previewContent, reading, picked, alerted, indicatorEl>>

\* ChatManager.sendMessage() returning before it did anything
sendMessage_return(how) ==
    /\ Sent(how)
    /\ NoRequest
    /\ UNCHANGED <<chatVars, inflight, imageVars, layout, typingVars>>

\* Mutation: the busy flag is not consulted.
sendMessage_NoBusyCheck(message, image) ==
    IF ~Truthy(message) /\ ~Truthy(image)
    THEN sendMessage_return("empty")
    ELSE sendMessage_try(message, image)

\* ChatManager.sendMessage() up to its await; message is the trimmed text of
\* #chatInput, image is currentImage.file (NoValue without currentImage)
sendMessage(message, image) ==
    IF isProcessing
    THEN sendMessage_return("busy")
    ELSE IF ~Truthy(message) /\ ~Truthy(image)
    THEN sendMessage_return("empty")
    ELSE sendMessage_try(message, image)

\* The user presses the send button or Enter in the chat input.
SendMessage ==
    /\ \E message \in {EmptyStr, Lit(1)} : sendMessage(message, currentImage)
    /\ UNCHANGED <<modalVars, kbVars, utilVars>>

\* Mutation: the cleanup runs only after a response with success true.
sendMessage_resume_NoFinally(r, d) ==
    LET rendered == d.outcome = "ok" /\ d.response # NoValue
    IN [currentUserId |-> IF d.outcome = "ok" /\ Truthy(d.user_id)
                          THEN d.user_id ELSE currentUserId,
        chatMessages |-> Append(chatMessages,
                                IF rendered THEN Shown("bot", d.response)
                                ELSE Shown("bot", ErrorText)),
        chatHistory |-> IF rendered
                        THEN chatHistory \o
                               << Entry("user", r.message, r.prev, r.old),
                                  Entry("bot", d.response, r.prev, r.old) >>
                        ELSE chatHistory,
        typing |-> IF rendered THEN hideTypingIndicator
                   ELSE [typingShown |-> typingShown,
                         typingMessage |-> typingMessage],
        isProcessing |-> ~rendered,
        sendBtnDisabled |-> ~rendered]

\* Mutation: the bot entry is recorded before the user entry.
sendMessage_resume_Swapped(r, d) ==
    LET rendered == d.outcome = "ok" /\ d.response # NoValue
    IN [currentUserId |-> IF d.outcome = "ok" /\ Truthy(d.user_id)
                          THEN d.user_id ELSE currentUserId,
        chatMessages |-> Append(chatMessages,
                                IF rendered THEN Shown("bot", d.response)
                                ELSE Shown("bot", ErrorText)),
        chatHistory |-> IF rendered
                        THEN chatHistory \o
                               << Entry("bot", d.response, r.prev, r.old),
                                  Entry("user", r.message, r.prev, r.old) >>
                        ELSE chatHistory,
        typing |-> hideTypingIndicator,
        isProcessing |-> FALSE,
        sendBtnDisabled |-> FALSE]

\* Mutation: the user_id of a payload is taken whatever its success field.
sendMessage_resume_AnyUserId(r, d) ==
    LET rendered == d.outcome = "ok" /\ d.response # NoValue
    IN [currentUserId |-> IF d.outcome \in {"ok", "fail"} /\ Truthy(d.user_id)
                          THEN d.user_id ELSE currentUserId,
        chatMessages |-> Append(chatMessages,
                                IF rendered THEN Shown("bot", d.response)
                                ELSE Shown("bot", ErrorText)),
        chatHistory |-> IF rendered
                        THEN chatHistory \o
                               << Entry("user", r.message, r.prev, r.old),
                                  Entry("bot", d.response, r.prev, r.old) >>
                        ELSE chatHistory,
        typing |-> hideTypingIndicator,
        isProcessing |-> FALSE,
        sendBtnDisabled |-> FALSE]

\* ChatManager.sendMessage() from the response on: the success branch (a
\* payload without a response text raises in addMessageToChat), the
\* success:false branch, the catch block, and the finally block
sendMessage_resume(r, d) ==
    LET rendered == d.outcome = "ok" /\ d.response # NoValue
    IN [currentUserId |-> IF d.outcome = "ok" /\ Truthy(d.user_id)
                          THEN d.user_id ELSE currentUserId,
        chatMessages |-> Append(chatMessages,
                                IF rendered THEN Shown("bot", d.response)
                                ELSE Shown("bot", ErrorText)),
        chatHistory |-> IF rendered
                        THEN chatHistory \o
                               << Entry("user", r.message, r.prev, r.old),
                                  Entry("bot", d.response, r.prev, r.old) >>
                        ELSE chatHistory,
        typing |-> hideTypingIndicator,
        isProcessing |-> FALSE,
        sendBtnDisabled |-> FALSE]

ResolveSend ==
    /\ \E i \in Pending("send") : \E d \in Answers(inflight[i]) :
        LET n == sendMessage_resume(inflight[i], d)
        IN /\ currentUserId' = n.currentUserId
           /\ chatHistory' = n.chatHistory
           /\ chatMessages' = n.chatMessages
           /\ isProcessing' = n.isProcessing
           /\ sendBtnDisabled' = n.sendBtnDisabled
           /\ typingShown' = n.typing.typingShown
           /\ typingMessage' = n.typing.typingMessage
           /\ Resumed(inflight[i], d)
           /\ inflight' = Without(inflight, i)
    /\ NoRequest
    /\ UNCHANGED <<isHistoryLoaded, modalVars, imageVars, layout, indicatorEl,
                   checkTimers, kbVars, utilVars>>

\* The visibility check showTypingIndicator() scheduled (100 ms): when the
\* computed display of the dedicated element is 'none', the inline entry is
\* added to the message list
CheckTimer ==
    /\ checkTimers > 0
    /\ checkTimers' = checkTimers - 1
    /\ typingMessage' =
         (typingMessage \/ ~typingShown \/ indicatorEl = "hidden")
    /\ Quiet
    /\ NoRequest
    /\ UNCHANGED <<chatVars, modalVars, inflight, imageVars, layout,
                   indicatorEl, typingShown, kbVars, utilVars>>

\* ---------------------------------------------------------- modal manager
Modals == {"newspaperModal", "calendarModal", "feedbackModal", "chatModal"}

\* ModalManager.resetChatState(): the classes it removes from #chatHeader,
\* #chatMessages and #chatInputContainer are all the classes of the layout
resetChatState(l) ==
    l \ {"header:keyboard-hidden", "messages:header-hidden",
         "messages:keyboard-open", "messages:has-preview",
         "input:keyboard-open", "input:has-preview"}

\* ModalManager.closeModal(modalId) on the modal state m
closeModal(m, modalId) ==
    [display |-> m.display \ {modalId}, activeModal |-> "null",
     layout |-> IF modalId = "chatModal" THEN resetChatState(m.layout)
                ELSE m.layout]

\* Mutation: the active modal is not closed first.
openModal_NoClose(m, modalId) ==
    [display |-> m.display \cup {modalId}, activeModal |-> modalId,
     layout |-> m.layout]
\* ModalManager.openModal(modalId) on the modal state m
openModal(m, modalId) ==
    LET c == IF m.activeModal # "null" /\ m.activeModal # modalId
             THEN closeModal(m, m.activeModal) ELSE m
    IN [display |-> c.display \cup {modalId}, activeModal |-> modalId,
        layout |-> c.layout]

ModalState ==
    [display |-> display, activeModal |-> activeModal, layout |-> layout]

\* what the modal manager's steps leave alone outside the modals
ModalRest == <<imageVars, typingVars, kbVars, utilVars>>

\* ModalManager.openNewspaper() / openCalendar() up to the await
OpenContent(modalId, kind) ==
    LET m == openModal(ModalState, modalId)
    IN /\ Len(inflight) < MaxInflight
       /\ display' = m.display
       /\ activeModal' = m.activeModal
       /\ layout' = m.layout
       /\ content' = [content EXCEPT ![modalId] = "loading"]
       /\ \E rnd \in Rnds :
            IF kind = "articles" THEN NewspaperAPI_getArticles(rnd)
            ELSE EventsAPI_getEvents(rnd)
       /\ inflight' = Append(inflight,
                             Request(kind, NoValue, call', FALSE))
       /\ Quiet
       /\ UNCHANGED <<chatVars, submitBtnDisabled, ModalRest>>

openNewspaper == OpenContent("newspaperModal", "articles")

openCalendar == OpenContent("calendarModal", "events")

\* ModalManager.openNewspaper() / openCalendar() from the response on
ResolveContent ==
    /\ \E i \in Pending("articles") \cup Pending("events") :
       \E d \in Answers(inflight[i]) :
        /\ content' =
             [content EXCEPT ![IF inflight[i].kind = "articles"
                               THEN "newspaperModal" ELSE "calendarModal"] =
                 IF d.outcome = "reject" THEN "error"
                 ELSE IF d.outcome = "ok" /\ d.history # <<>> THEN "list"
                 ELSE "empty"]
        /\ Resumed(inflight[i], d)
        /\ inflight' = Without(inflight, i)
    /\ NoRequest /\ UNCHANGED <<chatVars, display, activeModal,
                   submitBtnDisabled, auxVars>>

\* ModalManager.openFeedback()
openFeedback ==
    LET m == openModal(ModalState, "feedbackModal")
    IN /\ display' = m.display
       /\ activeModal' = m.activeModal
       /\ layout' = m.layout
       /\ Quiet
       /\ NoRequest /\ UNCHANGED <<chatVars, content, submitBtnDisabled,
                      inflight, ModalRest>>

\* ModalManager.openModal(modalId) called on the exported manager
\* (window.ModalManager) for any modal of the page
OpenModal ==
    /\ \E modalId \in Modals :
        LET m == openModal(ModalState, modalId)
        IN /\ display' = m.display
           /\ activeModal' = m.activeModal
           /\ layout' = m.layout
    /\ Quiet
    /\ NoRequest /\ UNCHANGED <<chatVars, content, submitBtnDisabled,
                   inflight, ModalRest>>
\* window.closeModal(modalId), the close control of a modal
CloseModal ==
    /\ \E modalId \in Modals :
        LET m == closeModal(ModalState, modalId)
        IN /\ display' = m.display
           /\ activeModal' = m.activeModal
           /\ layout' = m.layout
    /\ Quiet
    /\ NoRequest /\ UNCHANGED <<chatVars, content, submitBtnDisabled,
                   inflight, ModalRest>>

\* window.onclick on the backdrop of a displayed modal: closeModal(modal.id)
ClickOutside ==
    /\ \E modalId \in display :
        LET m == closeModal(ModalState, modalId)
        IN /\ display' = m.display
           /\ activeModal' = m.activeModal
           /\ layout' = m.layout
    /\ Quiet
    /\ NoRequest /\ UNCHANGED <<chatVars, content, submitBtnDisabled,
                   inflight, ModalRest>>

\* keydown Escape: the first modal of the document whose style holds
\* 'block' is closed (the document order is not fixed by the scripts)
Escape ==
    /\ \E modalId \in display :
        LET m == closeModal(ModalState, modalId)
        IN /\ display' = m.display
           /\ activeModal' = m.activeModal
           /\ layout' = m.layout
    /\ Quiet
    /\ NoRequest /\ UNCHANGED <<chatVars, content, submitBtnDisabled,
                   inflight, ModalRest>>

\* ModalManager.closeAllModals()
closeAllModals ==
    /\ display' = {}
    /\ activeModal' = IF display # {} THEN "null" ELSE activeModal
    /\ layout' = IF "chatModal" \in display THEN resetChatState(layout)
                 ELSE layout
    /\ Quiet
    /\ NoRequest /\ UNCHANGED <<chatVars, content, submitBtnDisabled,
                   inflight, ModalRest>>

\* ModalManager.handleFeedbackSubmit(e) up to its await; the form is
\* submitted through its button, which the browser ignores while disabled
handleFeedbackSubmit ==
    /\ "feedbackModal" \in display
    /\ ~submitBtnDisabled
    /\ Len(inflight) < MaxInflight
    /\ submitBtnDisabled' = TRUE
    /\ \E rnd \in Rnds : FeedbackAPI_submitFeedback(rnd)
    /\ inflight' = Append(inflight,
                          Request("feedback", NoValue, call', FALSE))
    /\ Quiet
    /\ UNCHANGED <<chatVars, display, activeModal, content, auxVars>>

\* Mutation: the button is re-enabled only after a response with success
\* true.
handleFeedbackSubmit_resume_NoFinally(r, d) ==
    LET m == IF d.outcome = "ok" THEN closeModal(ModalState, "feedbackModal")
             ELSE ModalState
    IN [display |-> m.display, activeModal |-> m.activeModal,
        layout |-> m.layout, submitBtnDisabled |-> d.outcome # "ok",
        form |-> IF d.outcome = "ok" THEN FormDefault ELSE form]

\* Mutation: the form is reset and the modal closed whatever the response.
handleFeedbackSubmit_resume_AlwaysClose(r, d) ==
    LET m == closeModal(ModalState, "feedbackModal")
    IN [display |-> m.display, activeModal |-> m.activeModal,
        layout |-> m.layout, submitBtnDisabled |-> FALSE,
        form |-> FormDefault]

\* ModalManager.handleFeedbackSubmit(e) from the response on: form.reset()
\* and closeModal('feedbackModal') in the success branch only
handleFeedbackSubmit_resume(r, d) ==
    LET m == IF d.outcome = "ok" THEN closeModal(ModalState, "feedbackModal")
             ELSE ModalState
    IN [display |-> m.display, activeModal |-> m.activeModal,
        layout |-> m.layout, submitBtnDisabled |-> FALSE,
        form |-> IF d.outcome = "ok" THEN FormDefault ELSE form]

ResolveFeedback ==
    /\ \E i \in Pending("feedback") : \E d \in Answers(inflight[i]) :
        LET n == handleFeedbackSubmit_resume(inflight[i], d)
        IN /\ display' = n.display
           /\ activeModal' = n.activeModal
           /\ submitBtnDisabled' = n.submitBtnDisabled
           /\ layout' = n.layout
           /\ form' = n.form
           /\ Resumed(inflight[i], d)
           /\ inflight' = Without(inflight, i)
    /\ NoRequest
    /\ UNCHANGED <<chatVars, content, imageVars, typingVars, kbVars, img, out,
                   retry, app>>

\* The user edits the fields of the feedback form while it is displayed.
InputFeedback ==
    /\ "feedbackModal" \in display
    /\ \E v \in FormValues : v # form /\ form' = v
    /\ Quiet
    /\ NoRequest
    /\ UNCHANGED <<chatVars, modalVars, inflight, imageVars, layout,
                   typingVars, kbVars, img, out, retry, app>>

\* ------------------------------------------------------- image selection
MB == 1024 * 1024

\* The files the user can pick: declared type (major, minor) and size in
\* bytes
FileTable ==
    << [type |-> <<"image", "jpeg">>, size |-> MB],
       [type |-> <<"image", "png">>, size |-> 50 * MB],
       [type |-> <<"image", "jpeg">>, size |-> 50 * MB + 1],
       [type |-> <<"image", "gif">>, size |-> MB],
       [type |-> <<"application", "pdf">>, size |-> MB] >>

Files == {File(n, 0) : n \in DOMAIN FileTable}

\* ApiUtils.validateFileType(file): TRUE, or FALSE for the thrown Error
validateFileType(file) ==
    FileTable[file.a].type \in
        { <<"image", "jpeg">>, <<"image", "png">>, <<"image", "webp">>,
          <<"image", "heic">>, <<"image", "heif">> }

\* ApiUtils.validateFileSize(file, maxSizeMB): TRUE, or FALSE for the
\* thrown Error
validateFileSize(file, maxSizeMB) ==
    ~(FileTable[file.a].size > maxSizeMB * MB)

\* Mutation: the size of the file is not checked.
prepareImageFile_NoSizeCheck(file) ==
    IF ~validateFileType(file)
    THEN [outcome |-> "throw", file |-> NoValue]
    ELSE IF FileTable[file.a].size > 2 * MB
    THEN [outcome |-> "return", file |-> File(file.a, 1)]
    ELSE [outcome |-> "return", file |-> file]

\* ApiUtils.prepareImageFile(file): the file to send (the output of
\* compressImage for a file over 2 MB), or the thrown Error
prepareImageFile(file) ==
    IF ~validateFileType(file)
    THEN [outcome |-> "throw", file |-> NoValue]
    ELSE IF ~validateFileSize(file, 50)
    THEN [outcome |-> "throw", file |-> NoValue]
    ELSE IF FileTable[file.a].size > 2 * MB
    THEN [outcome |-> "return", file |-> File(file.a, 1)]
    ELSE [outcome |-> "return", file |-> file]

\* ChatManager.handleImageSelect(event) up to the pending preparation and
\* preview read of an accepted file; a refused file ends the call
handleImageSelect ==
    /\ \E file \in Files :
        LET p == prepareImageFile(file)
        IN /\ picked' = file
           /\ IF FileTable[file.a].type[1] # "image"
              THEN /\ alerted' = TRUE
                   /\ UNCHANGED <<previewShown, previewContent, reading,
                                  layout>>
              ELSE /\ previewContent' = "processing"
                   /\ IF p.outcome = "throw"
                      THEN /\ previewShown' = FALSE
                           /\ layout' = setPreviewMode(layout, FALSE)
                           /\ alerted' = TRUE
                           /\ UNCHANGED reading
                      ELSE /\ Cardinality(reading) < MaxReading
                           /\ p.file \notin reading
                           /\ previewShown' = TRUE
                           /\ layout' = setPreviewMode(layout, TRUE)
                           /\ alerted' = FALSE
                           /\ reading' = reading \cup {p.file}
    /\ Quiet
    /\ NoRequest
    /\ UNCHANGED <<chatVars, modalVars, inflight, currentImage, typingVars,
                   kbVars, utilVars>>

\* reader.onload of handleImageSelect: the prepared file becomes
\* currentImage and the preview shows it
ResolveImage ==
    /\ \E file \in reading :
        /\ currentImage' = file
        /\ reading' = reading \ {file}
    /\ previewContent' = "image"
    /\ Quiet
    /\ NoRequest
    /\ UNCHANGED <<chatVars, modalVars, inflight, previewShown, picked,
                   alerted, layout, typingVars, kbVars, utilVars>>

\* ChatManager.removeImage(), the remove control of the preview
removeImage ==
    /\ currentImage' = NoValue
    /\ previewShown' = FALSE
    /\ layout' = setPreviewMode(layout, FALSE)
    /\ Quiet
    /\ NoRequest
    /\ UNCHANGED <<chatVars, modalVars, inflight, previewContent, reading,
                   picked, alerted, typingVars, kbVars, utilVars>>

\* ------------------------------------------------------ keyboard tracking
\* telegram.js: the delays of its timers and the threshold, in ms and px
DebounceDelay == 150
FocusDelay == 300
OrientationDelay == 500
ViewportDelay == 100
keyboardThreshold == 100

\* time passes in steps of a third of the debounce delay
Quantum == DebounceDelay \div 3

\* the heights the window takes
Heights == {650, 700, 800}

\* Bookkeeping over resize bursts.  A burst starts with a resize event and
\* ends when the debounced detection runs: strict tells that consecutive
\* events were less than DebounceDelay apart, gap is the time since the last
\* event (up to DebounceDelay), events counts the events (up to 2), was is
\* isKeyboardOpen when the burst started, other tells that a detection other
\* than the debounced one ran during the burst, transitions counts the
\* changes of isKeyboardOpen (up to 3); at, open, initial and final are the
\* gap, isKeyboardOpen, initialViewportHeight and the height at its end.
NoBurst == [active |-> FALSE, done |-> FALSE, strict |-> TRUE, gap |-> 0,
            events |-> 0, was |-> FALSE, other |-> FALSE, transitions |-> 0,
            at |-> 0, open |-> FALSE, initial |-> 0, final |-> 0]

\* kbRun: whether the latest step ran detectKeyboardState, from which timer,
\* and whether it called handleKeyboardToggle
NoRun == [ran |-> FALSE, toggled |-> FALSE, kind |-> "none"]

Timer(kind, delay) == [kind |-> kind, left |-> delay]

BurstEvent ==
    IF burst.active
    THEN [burst EXCEPT !.strict = @ /\ burst.gap < DebounceDelay,
                       !.gap = 0,
                       !.events = IF @ < 2 THEN @ + 1 ELSE @]
    ELSE [NoBurst EXCEPT !.active = TRUE, !.events = 1,
                         !.was = isKeyboardOpen]

BurstRun(kind, toggled, open, initial) ==
    IF ~burst.active THEN burst
    ELSE LET b == [burst EXCEPT
                     !.other = @ \/ kind # "debounce",
                     !.transitions = IF toggled /\ @ < 3 THEN @ + 1 ELSE @]
         IN IF kind = "debounce"
            THEN [b EXCEPT !.active = FALSE, !.done = TRUE, !.at = burst.gap,
                           !.open = open, !.initial = initial,
                           !.final = innerHeight]
            ELSE b

\* handleViewportChange(): the pending debounce timer is cleared and a new
\* one is set.
\* Mutation: the pending timer is not cleared.
handleViewportChange_NoClear(ts) ==
    Append(ts, Timer("debounce", DebounceDelay))

handleViewportChange(ts) ==
    Append(SelectSeq(ts, LAMBDA t : t.kind # "debounce"),
           Timer("debounce", DebounceDelay))

\* detectKeyboardState() with the given recorded initial height, current
\* height and keyboard state: the new state and whether handleKeyboardToggle
\* is called.
\* Mutation: a difference of exactly the threshold counts as open.
detectKeyboardState_AtThreshold(initial, currentHeight, wasKeyboardOpen) ==
    LET heightDifference == initial - currentHeight
        open == heightDifference >= keyboardThreshold
    IN [isKeyboardOpen |-> open, toggled |-> wasKeyboardOpen # open]

detectKeyboardState(initial, currentHeight, wasKeyboardOpen) ==
    LET heightDifference == initial - currentHeight
        open == heightDifference > keyboardThreshold
    IN [isKeyboardOpen |-> open, toggled |-> wasKeyboardOpen # open]

\* handleKeyboardToggle() on the layout classes l, with the new state
handleKeyboardToggle(l, open) ==
    IF "chatModal" \in display
    THEN IF open
         THEN l \cup {"header:keyboard-hidden", "messages:header-hidden",
                      "input:keyboard-open"}
                \cup (IF "messages:has-preview" \in l
                      THEN {"messages:keyboard-open"} ELSE {})
         ELSE l \ {"header:keyboard-hidden", "messages:header-hidden",
                   "messages:keyboard-open", "input:keyboard-open"}
    ELSE l

KbRest == <<idVars, call, chatVars, modalVars, inflight, noteVars, imageVars,
            typingVars, utilVars>>

\* a resize event of window or visualViewport (with the height unchanged: a
\* scroll event of visualViewport): handleViewportChange
Resize ==
    /\ \E h \in Heights : innerHeight' = h
    /\ timers' = handleViewportChange(timers)
    /\ Len(timers') <= MaxTimers
    /\ burst' = BurstEvent
    /\ kbRun' = NoRun
    /\ UNCHANGED <<initialViewportHeight, isKeyboardOpen, layout, KbRest>>

SetTimer(kind, delay) ==
    /\ Len(timers) < MaxTimers
    /\ timers' = Append(timers, Timer(kind, delay))
    /\ kbRun' = NoRun
    /\ UNCHANGED <<innerHeight, initialViewportHeight, isKeyboardOpen, burst,
                   layout, KbRest>>

\* focusin / focusout on #chatInput
FocusChange == \E kind \in {"focusin", "focusout"} : SetTimer(kind, FocusDelay)

\* orientationchange on window
OrientationChange == SetTimer("orientation", OrientationDelay)

\* the host's viewportChanged event: handleTelegramViewportChange
ViewportChanged == isInTelegram /\ SetTimer("viewport", ViewportDelay)

\* time passes, no timer being due
TimePasses ==
    /\ timers # <<>>
    /\ \A i \in DOMAIN timers : timers[i].left > 0
    /\ timers' = [i \in DOMAIN timers |->
                    [timers[i] EXCEPT !.left = @ - Quantum]]
    /\ burst' = [burst EXCEPT !.gap = IF @ < DebounceDelay
                                      THEN @ + Quantum ELSE @]
    /\ kbRun' = NoRun
    /\ UNCHANGED <<innerHeight, initialViewportHeight, isKeyboardOpen, layout,
                   KbRest>>

\* initialViewportHeight when the callback of a timer calls
\* detectKeyboardState: the orientation timer has just assigned
\* window.innerHeight to it.
\* Mutation: the orientation timer keeps the old baseline.
recordedHeight_Kept(kind) == initialViewportHeight

recordedHeight(kind) ==
    IF kind = "orientation" THEN innerHeight ELSE initialViewportHeight

\* a due timer fires: the orientation timer records the height first, every
\* timer runs detectKeyboardState
TimerFires ==
    /\ \E i \in DOMAIN timers :
        /\ timers[i].left = 0
        /\ LET kind == timers[i].kind
               initial == recordedHeight(kind)
               d == detectKeyboardState(initial, innerHeight, isKeyboardOpen)
           IN /\ initialViewportHeight' = initial
              /\ isKeyboardOpen' = d.isKeyboardOpen
              /\ layout' = IF d.toggled
                           THEN handleKeyboardToggle(layout, d.isKeyboardOpen)
                           ELSE layout
              /\ kbRun' = [ran |-> TRUE, toggled |-> d.toggled, kind |-> kind]
              /\ burst' = BurstRun(kind, d.toggled, d.isKeyboardOpen, initial)
              /\ timers' = Without(timers, i)
    /\ UNCHANGED <<innerHeight, KbRest>>

\* --------------------------------------------------------------- ApiUtils
\* no image, no call
NoImage == <<0, 0>>
NoRetry == [phase |-> "idle"]

\* the longest side compressImage allows
maxDimension == 1200

\* canvas.width = v, canvas.height = v: the attribute is an unsigned long,
\* the fractional part of the number assigned to it is dropped
ToCanvasSize(num, den) == num \div den

\* ApiUtils.compressImage, the handler of img.onload: the size of the canvas
\* the image is drawn on and the JPEG is made from, for a width x height
\* source.
\* Mutation: the shorter side is the one brought to maxDimension.
compressImage_WrongSide(width, height) ==
    IF width > maxDimension \/ height > maxDimension
    THEN IF width < height
         THEN <<maxDimension, ToCanvasSize(height * maxDimension, width)>>
         ELSE <<ToCanvasSize(width * maxDimension, height), maxDimension>>
    ELSE <<width, height>>

compressImage(width, height) ==
    IF width > maxDimension \/ height > maxDimension
    THEN IF width > height
         THEN <<maxDimension, ToCanvasSize(height * maxDimension, width)>>
         ELSE <<ToCanvasSize(width * maxDimension, height), maxDimension>>
    ELSE <<width, height>>

\* the side lengths of the source images, in pixels
Sides == {1, 66, 334, 600, 1200, 1201, 2000, 2400, 4000, 4800}

\* img.onload of a compressImage call fires
img_onload ==
    /\ out = NoImage
    /\ out' = compressImage(img[1], img[2])
    /\ UNCHANGED <<idVars, call, chatVars, modalVars, inflight, noteVars,
                   imageVars, layout, typingVars, kbVars, img, retry,
                   pageVars>>

\* ApiUtils.retryRequest(requestFunction, maxRetries, delay).
\* retry holds the call in progress: the arguments, the loop variable
\* attempt, whether requestFunction is running (pending), what the
\* attempts so far gave (outcomes), the waits made so far, and how the call
\* ended (phase "resolved" with result, "rejected" with error).
RECURSIVE Pow2(_)
Pow2(n) == IF n = 0 THEN 1 ELSE 2 * Pow2(n - 1)

\* const waitTime = delay * Math.pow(2, attempt - 1)
\* Mutation: the same wait after every failure.
waitTime_NoBackoff(delay, attempt) == delay

waitTime(delay, attempt) == delay * Pow2(attempt - 1)

\* what requestFunction resolves with, what it rejects with
Results == {Val("result", 1, 0), Val("result", 2, 0)}
Errors == {Val("error", 1, 0), Val("error", 2, 0)}
\* the base delays, in ms
Delays == {0, 1, 1000}

\* retryRequest is called: the loop is entered with attempt = 1 and, for
\* maxRetries >= 1, requestFunction is called and awaited
retryRequest(maxRetries, delay) ==
    [phase |-> "calling", maxRetries |-> maxRetries, delay |-> delay,
     attempt |-> 1, pending |-> 1, outcomes |-> <<>>, waits |-> <<>>,
     result |-> NoValue, error |-> NoValue]

\* return await requestFunction(), the awaited promise resolved with v
retryRequest_return(r, v) ==
    [r EXCEPT !.phase = "resolved", !.pending = @ - 1,
              !.outcomes = Append(@, <<"ok", v>>), !.result = v]

\* the catch block, the awaited promise rejected with e.
\* Mutation: the wait is made before the last attempt is recognised.
retryRequest_catch_WaitFirst(r, e) ==
    LET failed == [r EXCEPT !.pending = @ - 1,
                            !.outcomes = Append(@, <<"err", e>>),
                            !.waits = Append(@, waitTime(r.delay, r.attempt))]
    IN  IF r.attempt = r.maxRetries
        THEN [failed EXCEPT !.phase = "rejected", !.error = e]
        ELSE [failed EXCEPT !.phase = "waiting"]

retryRequest_catch(r, e) ==
    LET failed == [r EXCEPT !.pending = @ - 1,
                            !.outcomes = Append(@, <<"err", e>>)]
    IN  IF r.attempt = r.maxRetries
        THEN [failed EXCEPT !.phase = "rejected", !.error = e]
        ELSE [failed EXCEPT !.phase = "waiting",
                            !.waits = Append(@, waitTime(r.delay, r.attempt))]

\* the timer of the wait fires: attempt++, the loop condition holds (the
\* wait is only made when attempt < maxRetries), requestFunction is called
retryRequest_next(r) ==
    [r EXCEPT !.phase = "calling", !.attempt = @ + 1, !.pending = @ + 1]

RetryRest == <<idVars, call, chatVars, modalVars, inflight, noteVars,
               imageVars, layout, typingVars, kbVars, img, out, pageVars>>

\* requestFunction's promise resolves
RequestResolves ==
    /\ retry.phase = "calling"
    /\ \E v \in Results : retry' = retryRequest_return(retry, v)
    /\ UNCHANGED RetryRest

\* requestFunction throws or its promise rejects
RequestRejects ==
    /\ retry.phase = "calling"
    /\ \E e \in Errors : retry' = retryRequest_catch(retry, e)
    /\ UNCHANGED RetryRest

\* the setTimeout of the wait fires
WaitElapsed ==
    /\ retry.phase = "waiting"
    /\ retry' = retryRequest_next(retry)
    /\ UNCHANGED RetryRest

\* The state of chat.js and modals.js after their scripts have run
UiInit ==
    /\ currentUserId = NoValue
    /\ chatHistory = <<>>
    /\ chatMessages = <<>>
    /\ isProcessing = FALSE
    /\ sendBtnDisabled = FALSE
    /\ isHistoryLoaded = FALSE
    /\ lastSend = "none"
    /\ display = {}
    /\ activeModal = "null"
    /\ content = [m \in {"newspaperModal", "calendarModal"} |-> "none"]
    /\ submitBtnDisabled = FALSE
    /\ inflight = <<>>
    /\ handled = NoResponse
    /\ currentImage = NoValue
    /\ previewShown = FALSE
    /\ previewContent = "none"
    /\ reading = {}
    /\ picked = NoValue
    /\ alerted = FALSE
    /\ layout = {}
    /\ typingShown = FALSE
    /\ typingMessage = FALSE
    /\ checkTimers = 0

\* telegram.js after its script has run, in a window of height h
KbInit(h) ==
    /\ innerHeight = h
    /\ initialViewportHeight = h
    /\ isKeyboardOpen = FALSE
    /\ timers = <<>>
    /\ burst = NoBurst
    /\ kbRun = NoRun

\* the feedback form holds its default values; the application object has
\* been constructed and the document is complete
PageInit ==
    /\ form = FormDefault
    /\ app = NoApp

\* no call of compressImage or retryRequest has been made
UtilInit ==
    /\ img = NoImage
    /\ out = NoImage
    /\ retry = NoRetry
    /\ PageInit

\* ----------------------------------------------------------- application
\* KirovetsMediaApp.initialize() from its entry to the await of the health
\* check, on the application state a: the call is counted and numbered, and
\* step 1 (TelegramWebApp.initialize) is logged
app_initialize(a) ==
    [a EXCEPT !.started = @ + 1, !.running = @ + 1,
              !.log = Append(@, <<"adapter", a.started + 1>>)]

\* The synchronous part of app.initialize(): TelegramWebApp.initialize()
\* records the viewport height, checkServerHealth() issues GET /health and
\* the call waits for the answer, remembering which call it is.
StartInitialize(a) ==
    /\ app' = app_initialize(a)
    /\ initialViewportHeight' = innerHeight
    /\ \E rnd \in Rnds : get("health", <<"/health">>, <<>>, rnd)
    /\ inflight' = Append(inflight,
                          Request("health", Val("num", a.started + 1, 0),
                                  call', FALSE))
    /\ Quiet
    /\ UNCHANGED <<chatVars, modalVars, imageVars, layout, typingVars,
                   innerHeight, isKeyboardOpen, timers, burst, kbRun, img,
                   out, retry, form>>

\* The bootstrap at the end of the application script: the DOMContentLoaded
\* listener is registered in any case, and initialize() is called at once
\* unless document.readyState is 'loading'.
Bootstrap ==
    /\ ~app.booted
    /\ LET a == [app EXCEPT !.booted = TRUE, !.listening = TRUE]
       IN IF app.readyState = "loading"
          THEN /\ app' = a
               /\ Quiet
               /\ NoRequest
               /\ UNCHANGED <<chatVars, modalVars, inflight, imageVars, layout,
                              typingVars, kbVars, img, out, retry, form>>
          ELSE StartInitialize(a)

\* The document fires DOMContentLoaded (readyState is 'interactive' by
\* then): the bootstrap's listener calls app.initialize().
DOMContentLoaded ==
    /\ app.listening
    /\ ~app.fired
    /\ StartInitialize([app EXCEPT !.fired = TRUE,
                                   !.readyState = "interactive"])

\* initialize() after a rejected health check: checkServerHealth warns and
\* rethrows, the catch block of initialize() calls showInitializationError
app_initialize_catch(a, k) ==
    [a EXCEPT !.running = @ - 1, !.reported = @ + 1,
              !.log = @ \o << <<"warning", k>>, <<"failed", k>> >>]

\* initialize() after the health data has arrived: a warning when
\* chat_available is missing, then steps 3 to 6 and isInitialized = true
app_initialize_resume(a, k, d) ==
    [a EXCEPT !.running = @ - 1, !.isInitialized = TRUE,
              !.log = @ \o (IF d.outcome = "ok" THEN <<>>
                            ELSE << <<"warning", k>> >>)
                        \o << <<"health", k>>, <<"chat", k>> >>]

\* The health check of a call of initialize() is answered or fails.
ResolveHealth ==
    /\ \E i \in Pending("health") : \E d \in Answers(inflight[i]) :
        LET k == inflight[i].message.a
            u == updateUserId
        IN /\ IF d.outcome = "reject"
              THEN /\ app' = app_initialize_catch(app, k)
                   /\ inflight' = Without(inflight, i)
                   /\ UNCHANGED <<currentUserId, isHistoryLoaded, chatHistory>>
              ELSE /\ app' = app_initialize_resume(app, k, d)
                   /\ currentUserId' = u.currentUserId
                   /\ isHistoryLoaded' = u.isHistoryLoaded
                   /\ chatHistory' = Tag(chatHistory, u.changed, FALSE)
                   /\ inflight' = Tag(Without(inflight, i), u.changed, FALSE)
           /\ Resumed(inflight[i], d)
    /\ NoRequest
    /\ UNCHANGED <<chatMessages, isProcessing, sendBtnDisabled, modalVars,
                   imageVars, layout, typingVars, kbVars, img, out, retry,
                   form>>
\* ------------------------------------------------------------ environment
\* The Mini-App host publishes, replaces or withdraws the authenticated user.
SetTelegramUser ==
    /\ tgWebApp
    /\ \E u \in TgUsers : u # tgUser /\ tgUser' = u
    /\ UNCHANGED <<tgWebApp, initData, tg, isInTelegram, storage, storageFault,
                   clock, idCall, tgObserved, hist, call, uiVars>>

\* The Mini-App host becomes available after the scripts have run (the host
\* script finishes loading late): window.Telegram.WebApp and its initData
\* are filled in, tg and isInTelegram of telegram.js keep their values.
HostArrives ==
    /\ ~(tgWebApp /\ initData)
    /\ tgWebApp' = TRUE
    /\ initData' = TRUE
    /\ \E u \in 1..MaxTgId : tgUser' = u
    /\ UNCHANGED <<tg, isInTelegram, storage, storageFault, clock, idCall,
                   tgObserved, hist, call, uiVars>>

\* The user (or the browser) removes the durable key.
RemoveKey ==
    /\ Truthy(storage)
    /\ storage' = NoValue
    /\ hist' = [hist EXCEPT !.removed = TRUE, !.webReturned = {}]
    /\ UNCHANGED <<tgWebApp, initData, tgUser, tg, isInTelegram, storageFault,
                   clock, idCall, tgObserved, call, uiVars>>

\* localStorage starts or stops throwing (blocked storage, quota exceeded).
SetStorageFault ==
    /\ \E f \in {"none", "read", "write"} : f # storageFault /\ storageFault' = f
    /\ UNCHANGED <<tgWebApp, initData, tgUser, tg, isInTelegram, storage,
                   clock, idCall, tgObserved, hist, call, uiVars>>

Tick ==
    /\ clock < MaxClock
    /\ clock' = clock + 1
    /\ UNCHANGED <<tgWebApp, initData, tgUser, tg, isInTelegram, storage,
                   storageFault, idCall, tgObserved, hist, call, uiVars>>

HostStates ==
    {h \in [app : BOOLEAN, data : BOOLEAN, user : TgUsers] :
        ~h.app => (~h.data /\ h.user = NoUser)}

\* A page (re)load: the scripts run again against the host of the new page;
\* telegram.js lines 362-363 capture tg and isInTelegram; storage survives.
Reload ==
    /\ \E h \in HostStates :
        /\ tgWebApp' = h.app
        /\ initData' = h.data
        /\ tgUser' = h.user
        /\ tg' = h.app
        /\ isInTelegram' = (h.app /\ h.data)
    /\ idCall' = NoIdCall
    /\ tgObserved' = FALSE
    /\ call' = NoCall
    /\ currentUserId' = NoValue
    /\ chatHistory' = <<>>
    /\ chatMessages' = <<>>
    /\ isProcessing' = FALSE
    /\ sendBtnDisabled' = FALSE
    /\ isHistoryLoaded' = FALSE
    /\ lastSend' = "none"
    /\ display' = {}
    /\ activeModal' = "null"
    /\ content' = [m \in {"newspaperModal", "calendarModal"} |-> "none"]
    /\ submitBtnDisabled' = FALSE
    /\ inflight' = <<>>
    /\ handled' = NoResponse
    /\ currentImage' = NoValue
    /\ previewShown' = FALSE
    /\ previewContent' = "none"
    /\ reading' = {}
    /\ picked' = NoValue
    /\ alerted' = FALSE
    /\ layout' = {}
    /\ typingShown' = FALSE
    /\ typingMessage' = FALSE
    /\ checkTimers' = 0
    /\ initialViewportHeight' = innerHeight
    /\ isKeyboardOpen' = FALSE
    /\ timers' = <<>>
    /\ burst' = NoBurst
    /\ kbRun' = NoRun
    /\ img' = NoImage
    /\ out' = NoImage
    /\ retry' = NoRetry
    /\ form' = FormDefault
    /\ app' = NoApp
    /\ UNCHANGED <<storage, storageFault, clock, hist, indicatorEl,
                   innerHeight>>

\* The identity resolver, the injector and the host when the scripts have run
IdInit ==
    /\ \E h \in HostStates :
        /\ tgWebApp = h.app
        /\ initData = h.data
        /\ tgUser = h.user
        /\ tg = h.app
        /\ isInTelegram = (h.app /\ h.data)
    /\ storage \in {NoValue, Val("web", 0, 1)}
    /\ storageFault = "none"
    /\ clock = 0
    /\ idCall = NoIdCall
    /\ tgObserved = FALSE
    /\ hist = HistInit(storage)
    /\ call = NoCall

\* The page after its scripts have run.  The page has no #typingIndicator
\* element (no visibility check is ever pending) and a window 800 px high.
Init ==
    /\ IdInit
    /\ UiInit
    /\ indicatorEl = "absent"
    /\ KbInit(800)
    /\ UtilInit

NextId ==
    \/ CallGetUserId
    \/ SetTelegramUser
    \/ RemoveKey
    \/ SetStorageFault
    \/ Tick
    \/ Reload

SpecId == Init /\ [][NextId]_vars

\* The facade: the operations of ChatAPI, NewspaperAPI, EventsAPI,
\* FeedbackAPI and TestAPI, and the environment they run in.
Next ==
    \/ ChatSendMessage
    \/ ChatGetHistory
    \/ ChatClearHistory
    \/ ChatGetSettings
    \/ ChatUpdateSettings
    \/ ChatGetStatus
    \/ OtherGet
    \/ FeedbackSubmit
    \/ SetTelegramUser
    \/ HostArrives
    \/ RemoveKey
    \/ SetStorageFault
    \/ Reload

Spec == Init /\ [][Next]_vars

\* The injector on its own: scripts that call window.fetch and
\* XMLHttpRequest directly.  initData is not read on this path.
InitInject == Init /\ initData = tgWebApp

NextInject ==
    \/ RawFetch
    \/ Refetch
    \/ XhrOpen
    \/ XhrSend
    \/ SetTelegramUser
    \/ SetStorageFault

SpecInject == InitInject /\ [][NextInject]_vars

\* The chat manager and its identity: the chat is opened, messages are
\* sent, the history is loaded, the server answers, and the Mini-App host
\* publishes users or arrives late.  The durable key does not fail here.
InitChat ==
    /\ Init
    /\ storage = Val("web", 0, 1)
    /\ tgUser \in {NoUser, 1, 2}

NextChat ==
    \/ initialize
    \/ openChat
    \/ SendMessage
    \/ ResolveHistory
    \/ ResolveSend
    \/ SetTelegramUser
    \/ HostArrives

SpecChat == InitChat /\ [][NextChat]_vars

\* The chat manager and its session: the chat is opened and closed,
\* messages are sent, the history is loaded and cleared, and the server
\* answers in any order.  The host does not change here.
InitSession ==
    /\ Init
    /\ storage = Val("web", 0, 1)
    /\ initData = tgWebApp
    /\ tgUser \in {NoUser, 1}

NextSession ==
    \/ initialize
    \/ openChat
    \/ CloseModal
    \/ SendMessage
    \/ clearChatHistory
    \/ ResolveHistory
    \/ ResolveSend
    \/ ResolveClear

SpecSession == InitSession /\ [][NextSession]_vars

\* The modal manager: every way of opening and closing a modal, the
\* feedback form, and the answers of the server.
InitModal ==
    /\ Init
    /\ storage = Val("web", 0, 1)
    /\ initData = tgWebApp
    /\ tgUser = (IF tgWebApp THEN 1 ELSE NoUser)

NextModal ==
    \/ openNewspaper
    \/ openCalendar
    \/ openFeedback
    \/ openChat
    \/ CloseModal
    \/ ClickOutside
    \/ Escape
    \/ closeAllModals
    \/ handleFeedbackSubmit
    \/ ResolveContent
    \/ ResolveHistory
    \/ ResolveFeedback

SpecModal == InitModal /\ [][NextModal]_vars

\* The feedback form: it is opened, filled in, submitted and closed, the
\* newspaper is opened over it, and the server answers.
NextFeedback ==
    \/ openFeedback
    \/ InputFeedback
    \/ handleFeedbackSubmit
    \/ ResolveFeedback
    \/ CloseModal
    \/ Escape
    \/ openNewspaper
    \/ ResolveContent

SpecFeedback == InitModal /\ [][NextFeedback]_vars

\* The busy states of the send button and of the feedback button; every
\* request is answered or fails in the end.
InitBusy ==
    /\ Init
    /\ storage = NoValue
    /\ initData = tgWebApp
    /\ tgUser = (IF tgWebApp THEN 1 ELSE NoUser)


NextBusy ==
    \/ SendMessage
    \/ openFeedback
    \/ handleFeedbackSubmit
    \/ ResolveSend
    \/ ResolveFeedback
    \/ SetStorageFault

SpecBusy ==
    /\ InitBusy /\ [][NextBusy]_vars
    /\ WF_vars(ResolveSend) /\ WF_vars(ResolveFeedback)

\* Image selection and sending: a web user or the Telegram user 1 picks files,
\* removes the attached image and sends messages.
InitImage ==
    /\ Init
    /\ storage = Val("web", 0, 1)
    /\ initData = tgWebApp
    /\ tgUser = (IF tgWebApp THEN 1 ELSE NoUser)

NextImage ==
    \/ handleImageSelect
    \/ ResolveImage
    \/ removeImage
    \/ SendMessage
    \/ ResolveSend

SpecImage == InitImage /\ [][NextImage]_vars

\* compressImage applied to one source image, on a page of a web user
InitCompress ==
    /\ IdInit /\ ~tgWebApp /\ storage = Val("web", 0, 1)
    /\ UiInit
    /\ indicatorEl = "absent"
    /\ KbInit(800)
    /\ img \in Sides \X Sides
    /\ out = NoImage
    /\ retry = NoRetry
    /\ PageInit

NextCompress == img_onload

SpecCompress == InitCompress /\ [][NextCompress]_vars
\* One call of retryRequest on a page of a web user: maxRetries and delay
\* are the caller's, every attempt may succeed or fail.
InitRetry ==
    /\ IdInit /\ ~tgWebApp /\ storage = Val("web", 0, 1)
    /\ UiInit
    /\ indicatorEl = "absent"
    /\ KbInit(800)
    /\ img = NoImage
    /\ out = NoImage
    /\ PageInit
    /\ \E maxRetries \in 1..MaxRetries, delay \in Delays :
        retry = retryRequest(maxRetries, delay)

NextRetry ==
    \/ RequestResolves
    \/ RequestRejects
    \/ WaitElapsed

SpecRetry == InitRetry /\ [][NextRetry]_vars
\* The typing indicator: a page with or without the #typingIndicator
\* element, on which messages are sent and answered and the visibility
\* checks fire, in any order.
InitTyping ==
    /\ IdInit
    /\ storage = Val("web", 0, 1)
    /\ initData = tgWebApp
    /\ tgUser = (IF tgWebApp THEN 1 ELSE NoUser)
    /\ UiInit
    /\ indicatorEl \in {"absent", "hidden", "normal"}
    /\ KbInit(800)
    /\ UtilInit

NextTyping ==
    \/ SendMessage
    \/ ResolveSend
    \/ CheckTimer
    \/ clearChatHistory
    \/ ResolveClear

SpecTyping == InitTyping /\ [][NextTyping]_vars
\* the user picks the one image file 1 (a JPEG of 1 MB)
PickImage == handleImageSelect /\ picked' = File(1, 0)

\* Opening one modal over another: openModal on any modal (the chat modal
\* too), the handlers that call it, an image preview in the chat, and the
\* close control.
NextOpenModal ==
    \/ OpenModal
    \/ openNewspaper
    \/ openCalendar
    \/ CloseModal
    \/ ResolveContent
    \/ PickImage
    \/ ResolveImage
    \/ removeImage

SpecOpenModal == InitModal /\ [][NextOpenModal]_vars
\* Keyboard tracking inside the Mini-App host: resize, focus, orientation
\* and host viewport events in any order and at any time, the timers they
\* set, and the chat modal opened and closed meanwhile.
InitKeyboard ==
    /\ IdInit
    /\ tgWebApp /\ initData /\ tgUser = 1
    /\ storage = Val("web", 0, 1)
    /\ UiInit
    /\ indicatorEl = "absent"
    /\ KbInit(800)
    /\ UtilInit

\* the chat modal is opened / closed through the modal manager
ShowChat == OpenModal /\ activeModal' = "chatModal"
HideChat == CloseModal /\ display' = {}

NextKeyboard ==
    \/ Resize
    \/ FocusChange
    \/ OrientationChange
    \/ ViewportChanged
    \/ TimePasses
    \/ TimerFires
    \/ ShowChat
    \/ HideChat

SpecKeyboard == InitKeyboard /\ [][NextKeyboard]_vars
\* The chat layout under the keyboard: resize events and their debounced
\* detection, while the chat is opened with openChat and closed again.
NextLayout ==
    \/ Resize
    \/ TimePasses
    \/ TimerFires
    \/ openChat
    \/ ResolveHistory
    \/ HideChat

SpecLayout == InitKeyboard /\ [][NextLayout]_vars

\* The chat manager's identity over time: the application initialises the
\* manager, the chat is opened and closed, the history is loaded, the clock
\* advances and the host's user changes.
NextUpdate ==
    \/ initialize
    \/ openChat
    \/ HideChat
    \/ ResolveHistory
    \/ SetTelegramUser
    \/ Tick

SpecUpdate == InitChat /\ [][NextUpdate]_vars

\* Start-up: the application script runs in a document that is loading,
\* interactive (before or after DOMContentLoaded) or complete, for every
\* host and every stored identity, and the server answers the health check.
InitBoot ==
    /\ IdInit
    /\ UiInit
    /\ indicatorEl = "absent"
    /\ KbInit(800)
    /\ img = NoImage
    /\ out = NoImage
    /\ retry = NoRetry
    /\ form = FormDefault
    /\ \E rs \in {"loading", "interactive", "complete"}, fired \in BOOLEAN :
        /\ rs = "loading" => ~fired
        /\ rs = "complete" => fired
        /\ app = App(rs, fired)

NextBoot ==
    \/ Bootstrap
    \/ DOMContentLoaded
    \/ ResolveHealth

SpecBoot == InitBoot /\ [][NextBoot]_vars

\* ================================================================ claims
\* C1 (as stated): once a getUserId() call of the page session has returned
\* a tg_ identity, no later call of that session returns a web_ identity.
C1_OnceTgNeverWeb ==
    (idCall.outcome = "return" /\ idCall.tgBefore) => idCall.value.kind # "web"

\* C1 (amended): once a call has returned a tg_ identity, every later call
\* made while the host still exposes an authenticated user with an id
\* returns tg_<that id>, whatever the durable key holds.
C1_TgWhileHostExposesUser ==
    (idCall.outcome # "none" /\ idCall.tgBefore /\ idCall.hostTg)
        => /\ idCall.outcome = "return"
           /\ idCall.value.kind = "tg"
           /\ idCall.step = "telegram"

C1_Witness ==
    /\ idCall.outcome = "return" /\ idCall.tgBefore /\ idCall.hostTg
    /\ Truthy(idCall.before)
    /\ idCall.value.kind = "tg"

\* C8: with no Telegram user and no removal of the durable key, all
\* getUserId() calls (within a page load and across reloads) return one and
\* the same string, and a stored value is never replaced by another one.
C8_StableWebIdentity ==
    /\ [](/\ Cardinality(hist.webReturned) <= 1
          /\ (idCall.outcome = "return" /\ idCall.value.kind = "web"
                 /\ Truthy(storage)) => idCall.value = storage)
    /\ [][(Truthy(storage) /\ Truthy(storage')) => storage' = storage]_vars

C8_Witness ==
    /\ idCall.outcome = "return" /\ idCall.step = "stored"
    /\ hist.writes = 1 /\ ~hist.removed
    /\ hist.webReturned = {storage}

\* C9: in a profile whose durable key is absent at the start and is not
\* removed, the key is written at most once, namely by the call that
\* generates the identity; a call that finds a stored value returns it
\* without writing; a call that returns a Telegram identity never writes.
C9_WrittenOnce ==
    (hist.absentAtStart /\ ~hist.removed) =>
        /\ hist.writes <= 1
        /\ (hist.writes = 1) <=> Truthy(storage)
        /\ (idCall.step = "generated") <=> idCall.wrote
        /\ idCall.wrote => ~Truthy(idCall.before)
        /\ (idCall.step = "stored")
              => (~idCall.wrote /\ idCall.value = idCall.before)
        /\ (idCall.step = "telegram") => ~idCall.wrote

C9_Witness ==
    /\ hist.absentAtStart /\ ~hist.removed /\ hist.writes = 1
    /\ idCall.step = "stored" /\ idCall.value = storage

\* C10: getUserId() never fails: no call ends in an exception, also when
\* reading or writing the durable storage raises an error.
C10_NeverFails ==
    idCall.outcome # "throw"

\* ---------------------------------------------------------------- C2
\* A request the facade forwarded to a chat endpoint
FacadeChatRequest ==
    /\ call.api = "fetch" /\ call.op # "raw"
    /\ IsChatEndpoint(call.url) /\ call.forwarded

B2N(b) == IF b THEN 1 ELSE 0

\* the number of channels through which the request carries an identity
Channels ==
    B2N(Truthy(call.xtg))
      + B2N(Has(call.query, "telegram_user_id")
              \/ Has(call.body.entries, "telegram_user_id"))
      + B2N(Has(call.body.entries, "user_id"))

FetchChatPost ==
    /\ call.api = "fetch" /\ IsChatEndpoint(call.url) /\ call.method = "POST"

\* ... whose body is taken as JSON and holds an object
JsonObjectPost ==
    /\ FetchChatPost /\ call.ct = "json"
    /\ call.given.kind = "text" /\ call.given.json = "obj"

\* C3: for a POST to a chat endpoint whose JSON object body has no user_id,
\* with a resolved identity X, the forwarded body deserializes to the
\* original object plus user_id = X and holds one user_id member; passing
\* the forwarded body through the injector again leaves it unchanged.
C3_JsonInjection ==
    /\ (JsonObjectPost /\ ~call.idThrew
          /\ ~Has(ObjectOf(call.given.entries), "user_id"))
        => /\ call.forwarded /\ ~call.threw
           /\ Truthy(call.idValue)
           /\ JSONparse(call.body).ok
           /\ JSONparse(call.body).props
                = SetProp(JSONparse(call.given).props, "user_id", call.idValue)
           /\ Count(call.body.entries, "user_id") = 1
           /\ \A rnd \in 1..MaxRnd :
                fetch(call.url, call.method, call.ct, call.body, rnd).body
                    = call.body
    /\ (JsonObjectPost /\ call.passes > 1
          /\ ~Has(ObjectOf(call.orig.entries), "user_id")
          /\ Has(ObjectOf(call.given.entries), "user_id"))
        => /\ call.forwarded /\ call.body = call.given /\ call.nIds = 0
           /\ Count(call.body.entries, "user_id") = 1

C3_Witness ==
    /\ JsonObjectPost /\ call.passes = 2
    /\ call.orig = TextBody("obj", <<<<"message", Lit(1)>>>>, FALSE)
    /\ call.body = TextBody("obj", <<<<"message", Lit(1)>>,
                                     <<"user_id", Val("web", 0, 1)>>>>, TRUE)

\* A multipart body handed to the injector for a chat endpoint
MultipartToChat ==
    /\ IsChatEndpoint(call.url)
    /\ \/ call.api = "fetch" /\ call.method = "POST"
       \/ call.api = "xhr" /\ call.op = "send"
    /\ call.given.kind = "form"

\* C4: for a multipart body sent to a chat endpoint through fetch or
\* XMLHttpRequest: with a user_id entry nothing is appended; without one
\* exactly one entry is appended; after any number of passes the body is
\* sent with exactly one user_id entry.
C4_MultipartExactlyOnce ==
    MultipartToChat =>
        /\ call.forwarded /\ ~call.threw
        /\ Has(call.given.entries, "user_id") => call.body = call.given
        /\ ~Has(call.given.entries, "user_id")
             => Len(call.body.entries) = Len(call.given.entries) + 1
        /\ Count(call.body.entries, "user_id") = 1

\* The caller's user_id of a JSON object or multipart body
CallerUserId == Get(IF call.given.kind = "text"
                    THEN ObjectOf(call.given.entries)
                    ELSE call.given.entries, "user_id")

CallerSetUserId ==
    /\ \/ JsonObjectPost
       \/ MultipartToChat
    /\ call.passes = 1
    /\ Has(call.given.entries, "user_id")

\* C5 (as stated): whatever value the caller put in user_id of a JSON or
\* multipart body, the forwarded request carries that value in user_id.
C5_NeverClobbers ==
    CallerSetUserId =>
        /\ call.forwarded
        /\ Get(JSONparse(call.body).props \o
               (IF call.body.kind = "form" THEN call.body.entries ELSE <<>>),
               "user_id") = CallerUserId

\* C5 (amended): a non-empty user_id set by the caller in a JSON body, and
\* any user_id entry (also an empty one) set in a multipart body, is
\* forwarded as it is, the body untouched; an empty user_id in a JSON body
\* counts as absent and is replaced by the resolved identity.
C5_KeepsNonEmpty ==
    /\ (CallerSetUserId
          /\ (call.given.kind = "form" \/ Truthy(CallerUserId)))
        => (call.forwarded /\ call.body = call.given /\ call.nIds = 0)
    /\ (CallerSetUserId /\ call.given.kind = "text" /\ ~Truthy(CallerUserId)
          /\ ~call.idThrew)
        => /\ call.forwarded
           /\ Get(JSONparse(call.body).props, "user_id") = call.idValue
           /\ Truthy(call.idValue)
           /\ Count(call.body.entries, "user_id") = 1

C5_Witness ==
    /\ CallerSetUserId /\ call.given.kind = "text"
    /\ CallerUserId = Lit(2)
    /\ call.forwarded /\ call.body = call.given

\* C6: a request that is not a POST, or does not target a chat endpoint, is
\* forwarded with its body unchanged, through fetch and through
\* XMLHttpRequest open/send alike.
C6_OnlyChatPost ==
    (/\ \/ call.api = "fetch"
        \/ call.api = "xhr" /\ call.op = "send"
     /\ ~(IsChatEndpoint(call.url) /\ call.method = "POST"))
        => (call.forwarded /\ ~call.threw /\ call.body = call.given)

\* C7: a POST JSON request to a chat endpoint whose body does not parse is
\* forwarded with the original body, the underlying fetch is invoked, and no
\* exception reaches the caller.
C7_ParseFailureForwarded ==
    (/\ FetchChatPost /\ call.ct = "json"
     /\ ~JSONparse(call.given).ok)
        => /\ call.forwarded /\ ~call.threw
           /\ call.body = call.given
           /\ call.caught /\ call.nIds = 0

C7_Witness ==
    /\ FetchChatPost /\ call.ct = "json"
    /\ call.given = TextBody("bad", <<>>, FALSE)
    /\ call.forwarded /\ call.body = call.given /\ call.caught

\* ---------------------------------------------------------------- C11
\* A send or a history load the chat manager has just issued
ManagerRequest ==
    \/ lastSend = "issued" /\ call.op = "sendMessage"
    \/ call.op = "getHistory" /\ inflight # <<>>
         /\ inflight[Len(inflight)].kind = "history"

\* the Mini-App host exposed an authenticated user with an id when the
\* request was made
HostUserAtCall == call.hostAuth /\ call.hostUser \notin {NoUser, 0}

\* C11: whenever a send or a history load is issued while the host exposes
\* an authenticated user N, also when the host arrived after the page had
\* loaded, the chat manager's current identity is tg_N, the request carries
\* X-Telegram-User-Id and telegram_user_id equal to N, and a POST carries
\* user_id equal to tg_N.
C11_ReResolvedBeforeRequest ==
    (ManagerRequest /\ HostUserAtCall) =>
        /\ currentUserId = Val("tg", call.hostUser, 0)
        /\ call.xtg = Val("num", call.hostUser, 0)
        /\ Get(call.query \o call.body.entries, "telegram_user_id")
             = Val("num", call.hostUser, 0)
        /\ call.method = "POST"
             => Get(call.body.entries, "user_id") = Val("tg", call.hostUser, 0)

\* ---------------------------------------------------------------- C12
\* C12: every GET the facade issues carries the resolved identity in its
\* query string: tg_N for a Telegram user, the persisted web identity
\* otherwise.
C12_GetCarriesIdentity ==
    (call.api = "fetch" /\ call.op # "raw" /\ call.method = "GET") =>
        \E i \in DOMAIN call.query :
            IF call.hostUser \notin {NoUser, 0}
            THEN call.query[i][2] = Val("tg", call.hostUser, 0)
            ELSE call.query[i][2].kind = "web"

\* ---------------------------------------------------------------- C13
\* C13: a facade request carries X-Telegram-User-Id if and only if the host
\* exposes an authenticated user with an id, and then its value is that id.
C13_HeaderIffHostUser ==
    (call.api = "fetch" /\ call.op # "raw") =>
        /\ Truthy(call.xtg) <=> HostUserAtCall
        /\ Truthy(call.xtg) => call.xtg = Val("num", call.hostUser, 0)

\* ---------------------------------------------------------------- C14
\* C14: at most one send is in flight, and only while isProcessing is set;
\* a sendMessage() call made meanwhile issues no request and changes
\* neither the chat session nor the message list nor the pending requests;
\* when a send completes no request is issued in its place.
C14_OneSendInFlight ==
    /\ [](/\ Cardinality(Pending("send")) <= 1
          /\ Pending("send") # {} => isProcessing)
    /\ [][lastSend' = "busy"
            => /\ isProcessing
               /\ call' = NoCall
               /\ UNCHANGED <<inflight, chatVars, modalVars, idVars>>]_vars
    /\ [][(handled'.kind = "send" /\ inflight' # inflight)
            => /\ call' = NoCall
               /\ Len(inflight') = Len(inflight) - 1
               /\ Pending("send")' = {}]_vars

C14_Witness ==
    /\ lastSend = "busy"
    /\ Cardinality(Pending("send")) = 1
    /\ isProcessing

\* ---------------------------------------------------------------- C15
\* C15: whatever the outcome of a chat send or of a feedback submit, the
\* step that handles it leaves isProcessing false and the send button
\* enabled, respectively the submit button enabled; a busy state holds only
\* while its request is in flight, and it ends.
C15_BusyCleared ==
    /\ [](/\ (isProcessing \/ sendBtnDisabled) => Pending("send") # {}
          /\ submitBtnDisabled => Pending("feedback") # {}
          /\ handled.kind = "send" => (~isProcessing /\ ~sendBtnDisabled)
          /\ handled.kind = "feedback" => ~submitBtnDisabled)
    /\ (isProcessing ~> (~isProcessing /\ ~sendBtnDisabled))
    /\ (submitBtnDisabled ~> ~submitBtnDisabled)

C15_Witness ==
    /\ handled.kind = "send" /\ handled.outcome = "reject"
    /\ ~isProcessing /\ ~sendBtnDisabled
    /\ submitBtnDisabled

\* ---------------------------------------------------------------- C16
\* C16: a send of a non-empty text without image while the host exposes the
\* user N issues one POST to /api/chat whose FormData holds the text as
\* message and tg_N as its one user_id; handling a response with success
\* true and a response text appends exactly the user entry and then the bot
\* entry to the chat session.
C16_SendAndLog ==
    /\ [](( /\ lastSend = "issued" /\ call.op = "sendMessage"
            /\ call.hostUser \notin {NoUser, 0}
            /\ Has(call.orig.entries, "message")
            /\ ~Has(call.orig.entries, "image"))
          => /\ call.url = <<ChatPiece>> /\ call.method = "POST"
             /\ call.forwarded /\ call.body.kind = "form"
             /\ Cardinality(Pending("send")) = 1
             /\ Get(call.body.entries, "message")
                  = inflight[Len(inflight)].message
             /\ Truthy(Get(call.body.entries, "message"))
             /\ Count(call.body.entries, "user_id") = 1
             /\ Get(call.body.entries, "user_id")
                  = Val("tg", call.hostUser, 0))
    /\ [][( /\ handled'.kind = "send" /\ handled'.outcome = "ok"
            /\ handled'.response # NoValue
            /\ inflight' # inflight)
          => Plain(chatHistory') =
                Plain(chatHistory) \o
                  << Shown("user", handled'.message),
                     Shown("bot", handled'.response) >>]_vars

C16_Witness ==
    /\ handled.kind = "send" /\ handled.outcome = "ok"
    /\ handled.message = Lit(1)
    /\ currentUserId.kind = "tg"
    /\ Plain(chatHistory) = << Shown("user", Lit(1)), Shown("bot", Lit(2)) >>

\* ---------------------------------------------------------------- C17
\* C17: at most one modal is displayed.
C17_AtMostOneModal ==
    Cardinality(display) <= 1

\* ---------------------------------------------------------------- C18
\* C18: once a history load issued for the chat manager's current identity
\* has been answered, the chat session holds no entry of an identity the
\* chat manager has left.
C18_ClearedOnIdentityChange ==
    (handled.kind = "history" /\ handled.outcome = "ok" /\ ~handled.prev)
        => \A i \in DOMAIN chatHistory : ~chatHistory[i].prev

\* ---------------------------------------------------------------- C19
\* C19: the chat session holds no entry of a message that was sent before
\* a clear which the server has confirmed.
C19_NothingFromBeforeClear ==
    \A i \in DOMAIN chatHistory : ~chatHistory[i].old

\* ---------------------------------------------------------------- C20
\* C20: when the last of several concurrent history loads has been
\* answered, the chat session is the history that answer carried.
C20_LastResponseWins ==
    (/\ handled.kind = "history" /\ handled.outcome = "ok"
     /\ handled.concurrent /\ Pending("history") = {})
        => Plain(chatHistory) = RenderedOf(handled.carried)

\* ---------------------------------------------------------------- C21
\* a file of an allowed image type and of at most 50 MB
Acceptable(file) ==
    /\ FileTable[file.a].type \in
         { <<"image", "jpeg">>, <<"image", "png">>, <<"image", "webp">>,
           <<"image", "heic">>, <<"image", "heif">> }
    /\ FileTable[file.a].size <= 50 * 1024 * 1024

\* C21: after a file that is not of an allowed image type or is larger than
\* 50 MB was picked, an error alert has been shown and the file is neither
\* being prepared nor attached; the step that handles a picked file calls
\* no transport; and no request ever carries a file that is not acceptable.
C21_RejectedBeforeUpload ==
    /\ []((picked # NoValue /\ ~Acceptable(picked))
            => /\ alerted
               /\ \A f \in reading \cup {currentImage} :
                     f = NoValue \/ f.a # picked.a)
    /\ [](\A f \in reading \cup ({currentImage} \ {NoValue}) : Acceptable(f))
    /\ [](\A i \in DOMAIN call.body.entries :
             call.body.entries[i][1] = "image"
                => Acceptable(call.body.entries[i][2]))
    /\ [][(picked' # picked \/ alerted' # alerted \/ reading' # reading)
             => (call' = NoCall /\ inflight' = inflight)]_vars

C21_Witness ==
    /\ picked = File(3, 0) /\ alerted
    /\ call.op = "sendMessage"
    /\ Has(call.body.entries, "image")
    /\ currentImage = NoValue

\* the greater and the smaller of two numbers
Longest(p) == IF p[1] > p[2] THEN p[1] ELSE p[2]
Shortest(p) == IF p[1] > p[2] THEN p[2] ELSE p[1]
\* the aspect ratio of image o deviates from that of image s by less than 1%:
\* |o1/o2 - s1/s2| < (s1/s2) / 100, in integers
RatioWithin1Pct(s, o) ==
    LET d == o[1] * s[2] - s[1] * o[2]
    IN  /\ o[2] > 0
        /\ 100 * (IF d < 0 THEN -d ELSE d) < s[1] * o[2]

\* C22 (as stated): for every source image with a side longer than 1200 px
\* the output of compressImage has its longest edge at most 1200 px and an
\* aspect ratio within 1% of the source's (4000x2000 gives 1200x600); an
\* image with both sides at most 1200 px keeps its dimensions.
C22_BoundedAndProportional ==
    out # NoImage =>
        IF Longest(img) > maxDimension
        THEN /\ Longest(out) <= maxDimension
             /\ RatioWithin1Pct(img, out)
             /\ (img = <<4000, 2000>> => out = <<1200, 600>>)
        ELSE out = img

\* C22 (amended): for every source image with a side longer than 1200 px the
\* longer side of the output is exactly 1200 px and lies on the same axis
\* (for a square source both sides are 1200), and the other side is the
\* proportional length with its fraction dropped, so less than one pixel
\* short of it; the aspect ratio is within 1% of the source's whenever
\* that other side is at least 100 px (4000x2000 gives 1200x600).  An image
\* with both sides at most 1200 px keeps its dimensions.
C22_BoundedAndTruncated ==
    out # NoImage =>
        IF Longest(img) > maxDimension
        THEN /\ Longest(out) = maxDimension
             /\ (img[1] > img[2] => out[1] = maxDimension)
             /\ (img[1] <= img[2] => out[2] = maxDimension)
             /\ Shortest(out) * Longest(img) <= Shortest(img) * maxDimension
             /\ Shortest(img) * maxDimension
                    < (Shortest(out) + 1) * Longest(img)
             /\ (Shortest(out) >= 100 => RatioWithin1Pct(img, out))
             /\ (img = <<4000, 2000>> => out = <<1200, 600>>)
        ELSE out = img

C22_Witness == img = <<4000, 2000>> /\ out = <<1200, 600>>

\* C23: retryRequest(f, maxRetries, delay) calls f at most maxRetries times
\* and never while an earlier call of f is still running; an attempt that
\* succeeds is the last one and the call resolves with its result; when all
\* maxRetries attempts failed the call rejects with the error of the last
\* attempt and no wait was made after it; a settled call does nothing more.
C23_RetryContract ==
    /\ [](/\ Len(retry.outcomes) + retry.pending = retry.attempt
          /\ retry.attempt <= retry.maxRetries
          /\ retry.pending <= 1
          /\ retry.pending = (IF retry.phase = "calling" THEN 1 ELSE 0))
    /\ [](\A i \in DOMAIN retry.outcomes :
            retry.outcomes[i][1] = "ok" =>
                /\ i = Len(retry.outcomes)
                /\ retry.phase = "resolved"
                /\ retry.result = retry.outcomes[i][2])
    /\ [](retry.phase = "resolved" =>
            /\ retry.outcomes # <<>>
            /\ retry.outcomes[Len(retry.outcomes)][1] = "ok")
    /\ [](retry.phase = "rejected" =>
            /\ Len(retry.outcomes) = retry.maxRetries
            /\ \A i \in DOMAIN retry.outcomes : retry.outcomes[i][1] = "err"
            /\ retry.error = retry.outcomes[retry.maxRetries][2]
            /\ Len(retry.waits) = retry.maxRetries - 1)
    /\ [](retry.phase \in {"waiting", "calling"} =>
            Len(retry.outcomes) < retry.maxRetries)
    /\ [][retry.phase \in {"resolved", "rejected"} => retry' = retry]_vars

C23_Witness ==
    /\ retry.phase = "rejected"
    /\ retry.maxRetries = 3
    /\ retry.outcomes = <<<<"err", Val("error", 1, 0)>>,
                          <<"err", Val("error", 1, 0)>>,
                          <<"err", Val("error", 2, 0)>>>>
    /\ retry.error = Val("error", 2, 0)

\* C24: the wait made after failed attempt k (1 <= k < maxRetries), before
\* attempt k + 1, is delay * 2^(k-1): delay after the first failure, twice
\* the previous wait after each further one, strictly increasing for
\* delay > 0; attempt k + 1 is made only after that wait.
C24_ExponentialBackoff ==
    /\ \A k \in DOMAIN retry.waits :
        /\ k < retry.maxRetries
        /\ retry.outcomes[k][1] = "err"
        /\ retry.waits[k] = retry.delay * Pow2(k - 1)
        /\ (k = 1 => retry.waits[k] = retry.delay)
        /\ (k > 1 => retry.waits[k] = 2 * retry.waits[k - 1])
        /\ ((k > 1 /\ retry.delay > 0) => retry.waits[k] > retry.waits[k - 1])
    /\ (retry.phase = "waiting" => Len(retry.waits) = retry.attempt)
    /\ (retry.phase = "calling" => Len(retry.waits) = retry.attempt - 1)

C24_Witness ==
    /\ retry.waits = <<1000, 2000>>
    /\ retry.phase = "calling"
    /\ retry.attempt = 3

\* C25 (as stated): every call of a facade operation issues exactly one
\* network request: the one call it makes of the transport is forwarded to
\* the network, once.
C25_OneRequestPerCall ==
    (call.api = "fetch" /\ call.op # "raw") =>
        /\ call.passes = 1
        /\ call.forwarded
        /\ ~call.threw

\* C27: when the server answers a chat send with success: false, sendMessage
\* ends normally (its finally block clears the busy state): the step that
\* handles the answer appends exactly one bot error entry to the message
\* list, where the user's entry was appended when the send was issued, and
\* leaves the chat session and the chat manager's identity unchanged, also
\* when the payload names another user_id.
C27_FailureIsRendered ==
    /\ [][( /\ handled'.kind = "send" /\ handled'.outcome = "fail"
            /\ inflight' # inflight)
          => /\ chatMessages' = Append(chatMessages, Shown("bot", ErrorText))
             /\ chatHistory' = chatHistory
             /\ currentUserId' = currentUserId
             /\ ~isProcessing' /\ ~sendBtnDisabled']_vars
    /\ [][(lastSend' = "issued" /\ inflight' # inflight)
          => /\ Len(chatMessages') = Len(chatMessages) + 1
             /\ chatMessages'[Len(chatMessages')].role = "user"]_vars

C27_Witness ==
    /\ handled.kind = "send" /\ handled.outcome = "fail"
    /\ Truthy(handled.user_id) /\ handled.user_id # currentUserId
    /\ Len(chatMessages) = 2
    /\ chatMessages[1] = Shown("user", handled.message)
    /\ chatMessages[2] = Shown("bot", ErrorText)
    /\ chatHistory = <<>>

\* C29 (as stated): the typing indicator, the dedicated element or the
\* inline entry, is shown only while a send is in flight: once no send is in
\* flight and every visibility check has fired, neither is visible.
C29_HiddenWhenIdle ==
    (Pending("send") = {} /\ checkTimers = 0) =>
        (~typingShown /\ ~typingMessage)

\* the request openNewspaper / openCalendar issues after openModal
ContentKind(modalId) ==
    CASE modalId = "newspaperModal" -> "articles"
      [] modalId = "calendarModal" -> "events"
      [] OTHER -> "none"

\* C30: a step in which a modal B becomes the active modal while another
\* modal A was active (openModal(B)) hides A, resets the chat layout when A
\* is the chat modal, and displays B; the active modal is always displayed;
\* openNewspaper / openCalendar called while their own modal is active
\* (openModal(A) with A active) leave it displayed and active.
C30_OpenClosesOther ==
    /\ [][(activeModal # "null" /\ activeModal' \notin {"null", activeModal})
          => /\ activeModal \notin display'
             /\ activeModal' \in display'
             /\ display' = (display \ {activeModal}) \cup {activeModal'}
             /\ (activeModal = "chatModal" => layout' = {})
             /\ (activeModal # "chatModal" => layout' = layout)]_vars
    /\ [][( /\ activeModal # "null"
            /\ Len(inflight') > Len(inflight)
            /\ inflight'[Len(inflight')].kind = ContentKind(activeModal))
          => /\ activeModal' = activeModal
             /\ display' = display
             /\ activeModal \in display']_vars
    /\ [](activeModal # "null" => activeModal \in display)

C30_Witness ==
    /\ activeModal = "calendarModal"
    /\ display = {"calendarModal"}
    /\ previewShown
    /\ layout = {}
    /\ content["calendarModal"] = "none"

\* C26 (as stated): for every burst of resize events less than 150 ms apart
\* keyboard detection runs once, 150 ms after the last event, and the
\* keyboard state makes at most one transition; with initial height 800 and
\* final height 650 it goes from closed to open exactly once.
C26_OneRunPerBurst ==
    (burst.done /\ burst.strict) =>
        /\ ~burst.other
        /\ burst.at = DebounceDelay
        /\ burst.transitions <= 1
        /\ (burst.initial = 800 /\ burst.final = 650 /\ ~burst.was) =>
               (burst.open /\ burst.transitions = 1)

\* C26 (amended): for every burst of resize events less than 150 ms apart
\* the debounced detection runs once, 150 ms after the last event and never
\* during the burst.  Detection also runs from the focus, orientation and
\* host-viewport timers; when none of them fires during the burst, the
\* keyboard state makes at most one transition for the burst, one exactly
\* when the state before the burst differs from (initial - final > 100):
\* with initial height 800 and final height 650 it goes from closed to open
\* exactly once.
C26_OneDebouncedRunPerBurst ==
    /\ (burst.active /\ burst.strict /\ ~burst.other) =>
           (isKeyboardOpen = burst.was /\ burst.transitions = 0)
    /\ (kbRun.ran /\ kbRun.kind = "debounce" /\ burst.strict) => burst.done
    /\ (burst.done /\ burst.strict) =>
        /\ burst.at = DebounceDelay
        /\ ~burst.other =>
            /\ burst.transitions <= 1
            /\ burst.open = (burst.initial - burst.final > keyboardThreshold)
            /\ (burst.transitions = 1) = (burst.was # burst.open)
            /\ (burst.initial = 800 /\ burst.final = 650 /\ ~burst.was) =>
                   (burst.open /\ burst.transitions = 1)

C26_Witness ==
    /\ burst.done /\ burst.strict /\ ~burst.other
    /\ burst.events = 2
    /\ burst.initial = 800 /\ burst.final = 650 /\ ~burst.was
    /\ burst.open /\ burst.transitions = 1
    /\ kbRun.ran /\ kbRun.kind = "debounce" /\ kbRun.toggled

\* C28: after every run of keyboard detection the keyboard state is open
\* exactly when the current height is more than 100 px below the recorded
\* initial height (a difference of exactly 100 px is closed), and the toggle
\* handler has run (the layout may have changed) only when the state changed.
C28_OpenIffBelowThreshold ==
    [][(kbRun'.ran /\ timers' # timers)
       => /\ isKeyboardOpen'
               = (initialViewportHeight' - innerHeight' > 100)
          /\ (initialViewportHeight' - innerHeight' = 100 => ~isKeyboardOpen')
          /\ kbRun'.toggled = (isKeyboardOpen' # isKeyboardOpen)
          /\ (isKeyboardOpen' = isKeyboardOpen => layout' = layout)]_vars

C28_Witness ==
    /\ kbRun.ran /\ ~kbRun.toggled
    /\ initialViewportHeight = 800 /\ innerHeight = 700
    /\ ~isKeyboardOpen

\* C31 (as stated): whenever the chat modal is displayed, the input bar has
\* class keyboard-open and the chat header has class keyboard-hidden exactly
\* when the keyboard state is open.
C31_ClassesFollowKeyboard ==
    "chatModal" \in display =>
        /\ ("input:keyboard-open" \in layout) = isKeyboardOpen
        /\ ("header:keyboard-hidden" \in layout) = isKeyboardOpen

\* C32: an orientation change sets a timer of 500 ms and leaves the baseline
\* alone; when that timer fires, the baseline becomes the current height and
\* detection runs against it, so the keyboard state is closed right after;
\* the baseline changes at no other step, and every later run of detection
\* compares the height with the baseline recorded last.
C32_RearmedOnOrientation ==
    /\ [][( /\ Len(timers') > Len(timers)
            /\ timers'[Len(timers')].kind = "orientation")
          => /\ timers'[Len(timers')].left = 500
             /\ initialViewportHeight' = initialViewportHeight
             /\ isKeyboardOpen' = isKeyboardOpen]_vars
    /\ [][(kbRun'.ran /\ kbRun'.kind = "orientation" /\ timers' # timers)
          => /\ \E i \in DOMAIN timers :
                  /\ timers[i] = Timer("orientation", 0)
                  /\ timers' = Without(timers, i)
             /\ initialViewportHeight' = innerHeight
             /\ innerHeight' = innerHeight
             /\ ~isKeyboardOpen']_vars
    /\ [][initialViewportHeight' # initialViewportHeight
          => (kbRun'.ran /\ kbRun'.kind = "orientation")]_vars
    /\ [][(kbRun'.ran /\ timers' # timers)
          => isKeyboardOpen'
               = (initialViewportHeight' - innerHeight' > keyboardThreshold)]_vars

\* re-armed at 650 px with the keyboard state open before; a later resize to
\* 800 px and back is measured against 650
C32_Witness ==
    /\ kbRun.ran /\ kbRun.kind = "orientation" /\ kbRun.toggled
    /\ initialViewportHeight = 650 /\ innerHeight = 650
    /\ ~isKeyboardOpen

\* C35 (as stated): activeModal is null exactly when no modal is displayed,
\* and otherwise it names the displayed modal.
C35_ActiveTracksDisplayed ==
    /\ (activeModal = "null") = (display = {})
    /\ (activeModal # "null" => display = {activeModal})

\* ---------------------------------------------------------------- C36
\* the identity the injector put into the body of the latest facade request
InjectedUserId == Get(call.body.entries, "user_id")

\* the Telegram identity the facade attached to the latest request: the
\* header and the telegram_user_id field
FacadeTelegramId ==
    IF Truthy(call.xtg)
         /\ Get(call.query \o call.body.entries, "telegram_user_id") = call.xtg
    THEN call.xtg ELSE NoValue

\* C36: on every facade request the injector added an identity to, that
\* identity is tg_N exactly when the facade set X-Telegram-User-Id and
\* telegram_user_id to N: the two resolvers agree in every host state.
C36_ResolversAgree ==
    (call.api = "fetch" /\ call.op # "raw" /\ Truthy(InjectedUserId)) =>
        \A n \in 1..MaxTgId :
            (InjectedUserId = Val("tg", n, 0))
                <=> (FacadeTelegramId = Val("num", n, 0))

\* ---------------------------------------------------------------- C37
\* the identity attached to the latest request: the injected user_id, or
\* else the Telegram user named by telegram_user_id, or none
RequestIdentity ==
    LET t == Get(call.query \o call.body.entries, "telegram_user_id")
    IN IF Truthy(InjectedUserId) THEN InjectedUserId
       ELSE IF Truthy(t) THEN Val("tg", t.a, 0)
       ELSE NoValue

\* C37: whenever a send or a history load is issued, the chat manager's
\* current identity is the identity attached to that request.
C37_CurrentIsAttached ==
    ManagerRequest => currentUserId = RequestIdentity

\* ---------------------------------------------------------------- C38
\* C38: once updateUserId() has run (the manager has issued a request), the
\* current identity is not null, whatever the environment; and a web session
\* identity is not replaced by another web session identity.
C38_IdentityAfterUpdate ==
    /\ [](call.op \in {"sendMessage", "getHistory"} => Truthy(currentUserId))
    /\ [][(currentUserId.kind = "session" /\ currentUserId'.kind = "session")
            => currentUserId' = currentUserId]_vars

\* ---------------------------------------------------------------- C39
\* the preview area is visible and shows an image (not the placeholder
\* shown while a selection is processed)
PreviewDisplayed == previewShown /\ previewContent = "image"

\* C39: an image is attached to the next send exactly when its preview is
\* displayed, also after an earlier selection completes late.
C39_AttachedIffPreviewed ==
    (currentImage # NoValue) <=> PreviewDisplayed

\* ---------------------------------------------------------------- C40
\* C40: when the response to a feedback submission is not a success (a
\* payload with success false, or a rejection), handling it leaves the
\* displayed modals and the form's fields as they are; the form is reset and
\* the feedback modal closed when the response is a success.
C40_FailureKeepsForm ==
    [][handled'.kind = "feedback" =>
          IF handled'.outcome = "ok"
          THEN form' = FormDefault /\ "feedbackModal" \notin display'
          ELSE form' = form /\ display' = display /\ activeModal' = activeModal
      ]_vars

\* a failed submission was handled while the modal was open and the form
\* filled in
C40_Witness ==
    /\ handled.kind = "feedback" /\ handled.outcome \in {"fail", "reject"}
    /\ "feedbackModal" \in display
    /\ form # FormDefault

\* ---------------------------------------------------------------- C33
\* the steps call k of initialize() has logged, in order
StepsOf(k) ==
    LET RECURSIVE Pick(_)
        Pick(l) == IF l = <<>> THEN <<>>
                   ELSE IF Head(l)[2] = k THEN <<Head(l)[1]>> \o Pick(Tail(l))
                   ELSE Pick(Tail(l))
    IN Pick(app.log)

\* the chat manager has been initialised by some call of initialize()
ChatInitialised == \E i \in DOMAIN app.log : app.log[i][1] = "chat"

\* C33: every call of initialize() runs the adapter initialisation, then the
\* health check, then the chat manager initialisation; isInitialized is
\* true only after a health check has succeeded; and when a health check
\* fails the chat manager is not initialised, isInitialized is false, the
\* failure is reported to the user and no rejection leaves initialize().
C33_StartupOrder ==
    /\ [](\A k \in 1..app.started :
            StepsOf(k) \in { <<"adapter">>,
                             <<"adapter", "health", "chat">>,
                             <<"adapter", "warning", "health", "chat">>,
                             <<"adapter", "warning", "failed">> })
    /\ [](app.isInitialized => ChatInitialised)
    /\ [][(handled'.kind = "health" /\ handled'.outcome = "reject") =>
            /\ ~app'.isInitialized
            /\ ~ChatInitialised'
            /\ currentUserId' = NoValue
            /\ app'.reported = app.reported + 1
            /\ app'.escaped = app.escaped]_vars

\* ---------------------------------------------------------------- C34
\* C34: on a page load initialize() is started at most once, whatever
\* document.readyState was when the bootstrap ran, and exactly once when
\* the bootstrap has run and DOMContentLoaded has fired.
C34_InitializedOnce ==
    /\ app.started <= 1
    /\ (app.booted /\ app.fired) => app.started = 1

====
